---- MODULE Spec2Model ----
(***************************************************************************)
(* Model of the in-memory vector database's storage core (the catalog,     *)
(* app/repositories/library_repository.py): libraries, documents, chunks,  *)
(* the four relation maps, the reentrant guard, and the values handed to   *)
(* callers.                                                                *)
(***************************************************************************)
EXTENDS Integers, FiniteSets, Sequences, TLC

VARIABLES
    libraries,          \* _libraries: library id -> Library
    documents,          \* _documents: document id -> Document
    chunks,             \* _chunks: chunk id -> Chunk
    library_documents,  \* _library_documents: library id -> set of document ids
    document_chunks,    \* _document_chunks: document id -> set of chunk ids
    chunk_document,     \* _chunk_document: chunk id -> document id
    document_library,   \* _document_library: document id -> library id
    ret,                \* what the last completed call handed to its caller
    call,               \* ghost: the last completed call (operation, arguments)
    lock,               \* _lock (RLock): owner and recursion depth
    pc,                 \* per thread: position inside its current call
    loc,                \* per thread: locals of its current call
    committed,          \* ghost: the catalog as of the last moment the guard was free
    indexes             \* VectorIndexService._indexes: library id -> (index_type, index)

vars == <<libraries, documents, chunks, library_documents, document_chunks,
          chunk_document, document_library, ret, call, lock, pc, loc, committed,
          indexes>>

catVars == <<libraries, documents, chunks, library_documents, document_chunks,
             chunk_document, document_library>>

thrVars == <<lock, pc, loc, committed>>

engVars == <<indexes>>

----------------------------------------------------------------------------
(* Bounds of the model *)

NumChunks == 2

\* the ids uuid4 may produce, and the ids callers may pass
LibIds == {"l1", "l2"}
DocIds == {"d1", "d2"}
AllChunkIds == <<"c1", "c2", "c3", "c4">>
ChunkIds == {AllChunkIds[i] : i \in 1..NumChunks}

None == "None"
ValueError == "ValueError"

\* payload values (names, titles, texts, embeddings, metadata) and clock readings
Vals == {"v0", "v1"}
Now == "t0"
Later == "t1"

----------------------------------------------------------------------------
(* Python dict helpers *)

Get(f, k) == IF k \in DOMAIN f THEN f[k] ELSE None

Put(f, k, v) == [x \in DOMAIN f \cup {k} |-> IF x = k THEN v ELSE f[x]]

Del(f, k) == [x \in DOMAIN f \ {k} |-> f[x]]

\* the catalog as one value
Cat == [libraries |-> libraries, documents |-> documents, chunks |-> chunks,
        library_documents |-> library_documents, document_chunks |-> document_chunks,
        chunk_document |-> chunk_document, document_library |-> document_library]

EmptyCat == [libraries |-> <<>>, documents |-> <<>>, chunks |-> <<>>,
             library_documents |-> <<>>, document_chunks |-> <<>>,
             chunk_document |-> <<>>, document_library |-> <<>>]

SetCat(s) ==
    /\ libraries' = s.libraries
    /\ documents' = s.documents
    /\ chunks' = s.chunks
    /\ library_documents' = s.library_documents
    /\ document_chunks' = s.document_chunks
    /\ chunk_document' = s.chunk_document
    /\ document_library' = s.document_library

----------------------------------------------------------------------------
(* Entities (app/models) *)

Library(id, name, metadata, t) ==
    [id |-> id, name |-> name, metadata |-> metadata, created_at |-> t]

Document(id, title, metadata, library_id, t) ==
    [id |-> id, title |-> title, content |-> None, metadata |-> metadata,
     library_id |-> library_id, created_at |-> t, updated_at |-> None]

Chunk(id, document_id, text, embedding, metadata, t) ==
    [id |-> id, document_id |-> document_id, text |-> text, embedding |-> embedding,
     metadata |-> metadata, created_at |-> t, updated_at |-> t]

----------------------------------------------------------------------------
(* What a call hands back: kind of value, the value, and whether the value *)
(* is the stored object itself (alias) or an independent copy; key is the  *)
(* id under which an aliased object is stored.                             *)

Ret(kind, val, alias, key) == [kind |-> kind, val |-> val, alias |-> alias, key |-> key]

RetNone == Ret("none", None, FALSE, None)
RetBool(b) == Ret("bool", b, FALSE, None)
RetError == Ret("error", ValueError, FALSE, None)

Result(s, r) == [s |-> s, ret |-> r]

\* a Library / Document object as the caller sees it (with its child list)
LibraryView(lib, docs) ==
    [id |-> lib.id, name |-> lib.name, metadata |-> lib.metadata,
     created_at |-> lib.created_at, documents |-> docs]

DocumentView(doc, chs) ==
    [id |-> doc.id, title |-> doc.title, content |-> doc.content,
     metadata |-> doc.metadata, library_id |-> doc.library_id,
     created_at |-> doc.created_at, updated_at |-> doc.updated_at, chunks |-> chs]

----------------------------------------------------------------------------
(* Reads *)

\* variant: every stored chunk, whatever document lists it
get_document_chunks_internal_all(s, document_id) ==
    {s.chunks[c] : c \in DOMAIN s.chunks}

\* _get_document_chunks_internal: copies of the chunks listed for the document
get_document_chunks_internal(s, document_id) ==
    LET chunk_ids == IF document_id \in DOMAIN s.document_chunks
                     THEN s.document_chunks[document_id] ELSE {}
    IN {s.chunks[c] : c \in chunk_ids \cap DOMAIN s.chunks}

\* get_document's value: a copy of the document carrying its chunks
get_document_val(s, document_id) ==
    IF document_id \notin DOMAIN s.documents THEN None
    ELSE DocumentView(s.documents[document_id],
                      get_document_chunks_internal(s, document_id))

\* _get_library_documents_internal
get_library_documents_internal(s, library_id) ==
    LET document_ids == IF library_id \in DOMAIN s.library_documents
                        THEN s.library_documents[library_id] ELSE {}
    IN {get_document_val(s, d) : d \in document_ids \cap DOMAIN s.documents}

get_library_val(s, library_id) ==
    IF library_id \notin DOMAIN s.libraries THEN None
    ELSE LibraryView(s.libraries[library_id],
                     get_library_documents_internal(s, library_id))

get_library(s, library_id) ==
    LET v == get_library_val(s, library_id)
    IN IF library_id \notin DOMAIN s.libraries THEN RetNone
       ELSE Ret("library", v, FALSE, library_id)

get_all_libraries(s) ==
    Ret("list", {get_library_val(s, l) : l \in DOMAIN s.libraries}, FALSE, None)

get_document(s, document_id) ==
    IF document_id \notin DOMAIN s.documents THEN RetNone
    ELSE Ret("document", get_document_val(s, document_id), FALSE, document_id)

get_library_documents(s, library_id) ==
    Ret("list", get_library_documents_internal(s, library_id), FALSE, None)

get_chunk(s, chunk_id) ==
    IF chunk_id \notin DOMAIN s.chunks THEN RetNone
    ELSE Ret("chunk", s.chunks[chunk_id], FALSE, chunk_id)

get_document_chunks(s, document_id) ==
    Ret("list", get_document_chunks_internal(s, document_id), FALSE, None)

get_library_chunks(s, library_id) ==
    LET document_ids == IF library_id \in DOMAIN s.library_documents
                        THEN s.library_documents[library_id] ELSE {}
    IN Ret("list",
           UNION {get_document_chunks_internal(s, d) : d \in document_ids},
           FALSE, None)

get_stats(s) ==
    Ret("stats",
        [libraries_count |-> Cardinality(DOMAIN s.libraries),
         documents_count |-> Cardinality(DOMAIN s.documents),
         chunks_count |-> Cardinality(DOMAIN s.chunks),
         total_entities |-> Cardinality(DOMAIN s.libraries)
                            + Cardinality(DOMAIN s.documents)
                            + Cardinality(DOMAIN s.chunks)],
        FALSE, None)

----------------------------------------------------------------------------
(* Writes, each one critical section of the catalog *)

\* create_library: the new Library object is stored and the same object returned
create_library(s, id, name, metadata, t) ==
    LET library == Library(id, name, metadata, t)
    IN IF id \in DOMAIN s.libraries THEN Result(s, RetError)
       ELSE Result([s EXCEPT !.libraries = Put(@, id, library),
                             !.library_documents = Put(@, id, {})],
                   Ret("library", LibraryView(library, {}), TRUE, id))

\* hasattr(entity, field) for the names a caller may pass
HasAttr(rec, field) == field \in DOMAIN rec \cup {"documents", "chunks"}

\* variant: metadata is never assigned
ApplyUpdates_skip_metadata(rec, updates, excluded) ==
    [f \in DOMAIN rec |->
        IF f \in DOMAIN updates /\ HasAttr(rec, f) /\ f \notin excluded \cup {"metadata"}
        THEN updates[f] ELSE rec[f]]

\* for field, value in updates.items(): if hasattr(...) and field not in [...]: setattr
ApplyUpdates(rec, updates, excluded) ==
    [f \in DOMAIN rec |->
        IF f \in DOMAIN updates /\ HasAttr(rec, f) /\ f \notin excluded
        THEN updates[f] ELSE rec[f]]

LibraryExcluded == {"id", "created_at", "documents"}
DocumentExcluded == {"id", "created_at", "chunks"}
ChunkExcluded == {"id", "created_at"}

update_library(s, library_id, updates) ==
    IF library_id \notin DOMAIN s.libraries THEN Result(s, RetNone)
    ELSE LET s2 == [s EXCEPT !.libraries[library_id] =
                                 ApplyUpdates(@, updates, LibraryExcluded)]
         IN Result(s2, get_library(s2, library_id))

\* variant: the chunk goes but its entry in document->chunks stays
delete_chunk_internal_stale(s, chunk_id) ==
    IF chunk_id \notin DOMAIN s.chunks THEN Result(s, FALSE)
    ELSE Result([s EXCEPT !.chunks = Del(@, chunk_id),
                          !.chunk_document = Del(@, chunk_id)], TRUE)

\* _delete_chunk_internal
delete_chunk_internal(s, chunk_id) ==
    IF chunk_id \notin DOMAIN s.chunks THEN Result(s, FALSE)
    ELSE LET document_id == Get(s.chunk_document, chunk_id)
             s1 == IF document_id # None /\ document_id \in DOMAIN s.document_chunks
                   THEN [s EXCEPT !.document_chunks[document_id] = @ \ {chunk_id}]
                   ELSE s
             s2 == [s1 EXCEPT !.chunks = Del(@, chunk_id)]
             s3 == IF chunk_id \in DOMAIN s2.chunk_document
                   THEN [s2 EXCEPT !.chunk_document = Del(@, chunk_id)]
                   ELSE s2
         IN Result(s3, TRUE)

\* for chunk_id in chunk_ids: self._delete_chunk_internal(chunk_id)
RECURSIVE delete_chunks_loop(_, _)
delete_chunks_loop(s, chunk_ids) ==
    IF chunk_ids = {} THEN s
    ELSE LET c == CHOOSE x \in chunk_ids : TRUE
         IN delete_chunks_loop(delete_chunk_internal(s, c).s, chunk_ids \ {c})

\* _delete_document_internal
delete_document_internal(s, document_id) ==
    IF document_id \notin DOMAIN s.documents THEN Result(s, FALSE)
    ELSE LET chunk_ids == IF document_id \in DOMAIN s.document_chunks
                          THEN s.document_chunks[document_id] ELSE {}
             s1 == delete_chunks_loop(s, chunk_ids)
             library_id == Get(s1.document_library, document_id)
             s2 == IF library_id # None /\ library_id \in DOMAIN s1.library_documents
                   THEN [s1 EXCEPT !.library_documents[library_id] = @ \ {document_id}]
                   ELSE s1
             s3 == [s2 EXCEPT !.documents = Del(@, document_id),
                              !.document_chunks = Del(@, document_id)]
             s4 == IF document_id \in DOMAIN s3.document_library
                   THEN [s3 EXCEPT !.document_library = Del(@, document_id)]
                   ELSE s3
         IN Result(s4, TRUE)

\* for doc_id in document_ids: self._delete_document_internal(doc_id)
RECURSIVE delete_documents_loop(_, _)
delete_documents_loop(s, document_ids) ==
    IF document_ids = {} THEN s
    ELSE LET d == CHOOSE x \in document_ids : TRUE
         IN delete_documents_loop(delete_document_internal(s, d).s, document_ids \ {d})

\* variant: the library goes without its documents
delete_library_no_cascade(s, library_id) ==
    IF library_id \notin DOMAIN s.libraries THEN Result(s, RetBool(FALSE))
    ELSE Result([s EXCEPT !.libraries = Del(@, library_id),
                          !.library_documents = Del(@, library_id)],
                RetBool(TRUE))

delete_library(s, library_id) ==
    IF library_id \notin DOMAIN s.libraries THEN Result(s, RetBool(FALSE))
    ELSE LET document_ids == IF library_id \in DOMAIN s.library_documents
                             THEN s.library_documents[library_id] ELSE {}
             s1 == delete_documents_loop(s, document_ids)
             s2 == [s1 EXCEPT !.libraries = Del(@, library_id),
                              !.library_documents = Del(@, library_id)]
         IN Result(s2, RetBool(TRUE))

\* create_document: the new Document object is stored and the same object returned
create_document(s, id, title, metadata, library_id, t) ==
    LET document == Document(id, title, metadata, library_id, t)
    IN IF library_id \notin DOMAIN s.libraries THEN Result(s, RetNone)
       ELSE IF id \in DOMAIN s.documents THEN Result(s, RetError)
       ELSE Result([s EXCEPT !.documents = Put(@, id, document),
                             !.document_chunks = Put(@, id, {}),
                             !.library_documents[library_id] = @ \cup {id},
                             !.document_library = Put(@, id, library_id)],
                   Ret("document", DocumentView(document, {}), TRUE, id))

update_document(s, document_id, updates) ==
    IF document_id \notin DOMAIN s.documents THEN Result(s, RetNone)
    ELSE LET s2 == [s EXCEPT !.documents[document_id] =
                                 ApplyUpdates(@, updates, DocumentExcluded)]
         IN Result(s2, get_document(s2, document_id))

\* variant: reports success whether or not the document was stored
delete_document_always_true(s, document_id) ==
    Result(delete_document_internal(s, document_id).s, RetBool(TRUE))

delete_document(s, document_id) ==
    LET r == delete_document_internal(s, document_id)
    IN Result(r.s, RetBool(r.ret))

\* variant: the chunk is stored before the parent is looked up
create_chunk_store_first(s, chunk, document_id) ==
    IF chunk.id \in DOMAIN s.chunks THEN Result(s, RetError)
    ELSE LET s1 == [s EXCEPT !.chunks = Put(@, chunk.id, chunk)]
         IN IF document_id \notin DOMAIN s.documents THEN Result(s1, RetNone)
            ELSE Result([s1 EXCEPT !.document_chunks[document_id] = @ \cup {chunk.id},
                                   !.chunk_document = Put(@, chunk.id, document_id)],
                        Ret("chunk", chunk, FALSE, chunk.id))

\* create_chunk: a deep copy of the caller's chunk is stored, another copy returned
create_chunk(s, chunk, document_id) ==
    IF document_id \notin DOMAIN s.documents THEN Result(s, RetNone)
    ELSE IF chunk.id \in DOMAIN s.chunks THEN Result(s, RetError)
    ELSE Result([s EXCEPT !.chunks = Put(@, chunk.id, chunk),
                          !.document_chunks[document_id] = @ \cup {chunk.id},
                          !.chunk_document = Put(@, chunk.id, document_id)],
                Ret("chunk", chunk, FALSE, chunk.id))

update_chunk(s, chunk_id, updates) ==
    IF chunk_id \notin DOMAIN s.chunks THEN Result(s, RetNone)
    ELSE LET s2 == [s EXCEPT !.chunks[chunk_id] =
                                 ApplyUpdates(@, updates, ChunkExcluded)]
         IN Result(s2, get_chunk(s2, chunk_id))

delete_chunk(s, chunk_id) ==
    LET r == delete_chunk_internal(s, chunk_id)
    IN Result(r.s, RetBool(r.ret))

----------------------------------------------------------------------------
(* Sequential calls: one action per catalog operation *)

Threads == {"w", "k", "r"}

\* the locals of a thread that is not inside a call
IdleLoc ==
    [op |-> None, args |-> <<>>, document_ids |-> {}, doc_id |-> None,
     chunk_ids |-> {}, chunk_id |-> None, result |-> RetNone, during |-> FALSE, calls |-> 0]

\* repeat: the call before this one was the same call and returned True;
\* removed: how many stored entities the call took out of the catalog
Call(op, args) == [op |-> op, args |-> args, repeat |-> FALSE, removed |-> 0]

Stored(ls, ds, cs) ==
    Cardinality(DOMAIN ls) + Cardinality(DOMAIN ds) + Cardinality(DOMAIN cs)

NextCall(op, args) ==
    [op |-> op, args |-> args,
     repeat |-> call.op = op /\ call.args = args /\ ret = RetBool(TRUE),
     removed |-> LET n == Stored(libraries, documents, chunks)
                          - Stored(libraries', documents', chunks')
                 IN IF n > 0 THEN n ELSE 0]

Init ==
    /\ libraries = <<>>
    /\ documents = <<>>
    /\ chunks = <<>>
    /\ library_documents = <<>>
    /\ document_chunks = <<>>
    /\ chunk_document = <<>>
    /\ document_library = <<>>
    /\ ret = RetNone
    /\ call = Call("init", <<>>)
    /\ lock = [owner |-> None, depth |-> 0]
    /\ pc = [t \in Threads |-> "idle"]
    /\ loc = [t \in Threads |-> IdleLoc]
    /\ committed = EmptyCat
    /\ indexes = <<>>

\* a call runs to completion: its effect on the catalog and its return value
Commit(r) == SetCat(r.s) /\ ret' = r.ret

CreateLibrary(id, name, metadata) ==
    /\ Commit(create_library(Cat, id, name, metadata, Now))
    /\ call' = NextCall("create_library", <<id>>)
    /\ UNCHANGED <<thrVars, engVars>>

GetLibrary(id) ==
    /\ ret' = get_library(Cat, id)
    /\ UNCHANGED <<catVars, thrVars, engVars>>
    /\ call' = NextCall("get_library", <<id>>)

GetAllLibraries ==
    /\ ret' = get_all_libraries(Cat)
    /\ UNCHANGED <<catVars, thrVars, engVars>>
    /\ call' = NextCall("get_all_libraries", <<>>)

UpdateLibrary(id, updates) ==
    /\ Commit(update_library(Cat, id, updates))
    /\ call' = NextCall("update_library", <<id, updates>>)
    /\ UNCHANGED <<thrVars, engVars>>

DeleteLibrary(id) ==
    /\ Commit(delete_library(Cat, id))
    /\ call' = NextCall("delete_library", <<id>>)
    /\ UNCHANGED <<thrVars, engVars>>

CreateDocument(id, title, metadata, library_id) ==
    /\ Commit(create_document(Cat, id, title, metadata, library_id, Now))
    /\ call' = NextCall("create_document", <<id, library_id>>)
    /\ UNCHANGED <<thrVars, engVars>>

GetDocument(id) ==
    /\ ret' = get_document(Cat, id)
    /\ UNCHANGED <<catVars, thrVars, engVars>>
    /\ call' = NextCall("get_document", <<id>>)

GetLibraryDocuments(id) ==
    /\ ret' = get_library_documents(Cat, id)
    /\ UNCHANGED <<catVars, thrVars, engVars>>
    /\ call' = NextCall("get_library_documents", <<id>>)

UpdateDocument(id, updates) ==
    /\ Commit(update_document(Cat, id, updates))
    /\ call' = NextCall("update_document", <<id, updates>>)
    /\ UNCHANGED <<thrVars, engVars>>

DeleteDocument(id) ==
    /\ Commit(delete_document(Cat, id))
    /\ call' = NextCall("delete_document", <<id>>)
    /\ UNCHANGED <<thrVars, engVars>>

CreateChunk(chunk, document_id) ==
    /\ Commit(create_chunk(Cat, chunk, document_id))
    /\ call' = NextCall("create_chunk", <<chunk.id, document_id>>)
    /\ UNCHANGED <<thrVars, engVars>>

GetChunk(id) ==
    /\ ret' = get_chunk(Cat, id)
    /\ UNCHANGED <<catVars, thrVars, engVars>>
    /\ call' = NextCall("get_chunk", <<id>>)

GetDocumentChunks(id) ==
    /\ ret' = get_document_chunks(Cat, id)
    /\ UNCHANGED <<catVars, thrVars, engVars>>
    /\ call' = NextCall("get_document_chunks", <<id>>)

GetLibraryChunks(id) ==
    /\ ret' = get_library_chunks(Cat, id)
    /\ UNCHANGED <<catVars, thrVars, engVars>>
    /\ call' = NextCall("get_library_chunks", <<id>>)

UpdateChunk(id, updates) ==
    /\ Commit(update_chunk(Cat, id, updates))
    /\ call' = NextCall("update_chunk", <<id, updates>>)
    /\ UNCHANGED <<thrVars, engVars>>

DeleteChunk(id) ==
    /\ Commit(delete_chunk(Cat, id))
    /\ call' = NextCall("delete_chunk", <<id>>)
    /\ UNCHANGED <<thrVars, engVars>>

GetStats ==
    /\ ret' = get_stats(Cat)
    /\ UNCHANGED <<catVars, thrVars, engVars>>
    /\ call' = NextCall("get_stats", <<>>)

\* The caller assigns attribute f of the object it was handed.  If that
\* object is the stored one, the store changes with it.
MutateReturned(f, v) ==
    /\ ret.kind \in {"library", "document", "chunk"}
    /\ f \in DOMAIN ret.val \ {"documents", "chunks"}
    /\ ret.val[f] # v
    /\ ret' = [ret EXCEPT !.val[f] = v]
    /\ call' = Call("mutate", <<f, v>>)
    /\ IF ret.alias /\ ret.kind = "library" /\ ret.key \in DOMAIN libraries
       THEN /\ libraries' = [libraries EXCEPT ![ret.key][f] = v]
            /\ UNCHANGED <<documents, chunks>>
       ELSE IF ret.alias /\ ret.kind = "document" /\ ret.key \in DOMAIN documents
       THEN /\ documents' = [documents EXCEPT ![ret.key][f] = v]
            /\ UNCHANGED <<libraries, chunks>>
       ELSE IF ret.alias /\ ret.kind = "chunk" /\ ret.key \in DOMAIN chunks
       THEN /\ chunks' = [chunks EXCEPT ![ret.key][f] = v]
            /\ UNCHANGED <<libraries, documents>>
       ELSE UNCHANGED <<libraries, documents, chunks>>
    /\ UNCHANGED <<library_documents, document_chunks, chunk_document, document_library>>
    /\ UNCHANGED <<thrVars, engVars>>

\* The caller assigns attribute f of one element of a list it was handed.
MutateReturnedElement(f, v) ==
    /\ ret.kind = "list"
    /\ \E e \in ret.val :
          /\ f \in DOMAIN e \ {"documents", "chunks"}
          /\ e[f] # v
          /\ ret' = [ret EXCEPT !.val = (@ \ {e}) \cup {[e EXCEPT ![f] = v]}]
    /\ call' = Call("mutate", <<f, v>>)
    /\ UNCHANGED catVars
    /\ UNCHANGED <<thrVars, engVars>>

(* Inputs of the sequential specification *)

Payload == {"v0"}

\* updates that name the identity and parentage fields
LibUpdates == {[id |-> l] : l \in LibIds}
DocUpdates == {[library_id |-> l] : l \in LibIds}
ChunkUpdates == {[document_id |-> d] : d \in DocIds}

NewChunks == {Chunk(c, d, v, "v0", "v0", Now) : c \in ChunkIds, d \in DocIds, v \in Payload}

Next ==
    \/ \E l \in LibIds, v \in Payload : CreateLibrary(l, v, "v0")
    \/ \E l \in LibIds : GetLibrary(l)
    \/ GetAllLibraries
    \/ \E l \in LibIds, u \in LibUpdates : UpdateLibrary(l, u)
    \/ \E l \in LibIds : DeleteLibrary(l)
    \/ \E d \in DocIds, v \in Payload, l \in LibIds : CreateDocument(d, v, "v0", l)
    \/ \E d \in DocIds : GetDocument(d)
    \/ \E l \in LibIds : GetLibraryDocuments(l)
    \/ \E d \in DocIds, u \in DocUpdates : UpdateDocument(d, u)
    \/ \E d \in DocIds : DeleteDocument(d)
    \/ \E c \in NewChunks, d \in DocIds : CreateChunk(c, d)
    \/ \E c \in ChunkIds : GetChunk(c)
    \/ \E d \in DocIds : GetDocumentChunks(d)
    \/ \E l \in LibIds : GetLibraryChunks(l)
    \/ \E c \in ChunkIds, u \in ChunkUpdates : UpdateChunk(c, u)
    \/ \E c \in ChunkIds : DeleteChunk(c)
    \/ GetStats

Spec == Init /\ [][Next]_vars

----------------------------------------------------------------------------
(* Properties of the sequential catalog *)

\* the catalog after the step
CatP == [libraries |-> libraries', documents |-> documents', chunks |-> chunks',
         library_documents |-> library_documents',
         document_chunks |-> document_chunks',
         chunk_document |-> chunk_document', document_library |-> document_library']

\* C1: every stored document's library_id names a stored library and every
\* stored chunk's document_id names a stored document.
C1_BackReferencesResolve ==
    /\ \A d \in DOMAIN documents : documents[d].library_id \in DOMAIN libraries
    /\ \A c \in DOMAIN chunks : chunks[c].document_id \in DOMAIN documents

\* C2: the relation maps agree with the entity maps: library->documents is
\* keyed by exactly the stored libraries, document->chunks by exactly the
\* stored documents; d is listed under l iff document->library[d] = l iff d
\* is stored (with that owner); c is listed under d iff chunk->document[c] = d
\* iff c is stored.
C2_RelationsAgree ==
    /\ DOMAIN library_documents = DOMAIN libraries
    /\ DOMAIN document_chunks = DOMAIN documents
    /\ DOMAIN document_library = DOMAIN documents
    /\ DOMAIN chunk_document = DOMAIN chunks
    /\ \A d \in DOMAIN document_library : document_library[d] \in DOMAIN libraries
    /\ \A c \in DOMAIN chunk_document : chunk_document[c] \in DOMAIN documents
    /\ \A l \in DOMAIN library_documents : \A d \in library_documents[l] :
          d \in DOMAIN documents /\ document_library[d] = l
    /\ \A d \in DOMAIN documents : d \in library_documents[document_library[d]]
    /\ \A d \in DOMAIN document_chunks : \A c \in document_chunks[d] :
          c \in DOMAIN chunks /\ chunk_document[c] = d
    /\ \A c \in DOMAIN chunks : c \in document_chunks[chunk_document[c]]

C2_Witness ==
    /\ call.op = "delete_document"
    /\ ret = RetBool(TRUE)
    /\ \E d \in DOMAIN documents : document_chunks[d] # {}
    /\ Cardinality(DOMAIN libraries) = 2

\* the documents of library l and the chunks of those documents
DocsOf(s, l) == s.library_documents[l]
ChunksOf(s, l) == UNION {s.document_chunks[d] : d \in DocsOf(s, l)}

\* C3: delete_library(L) on a stored library returns true; afterwards L, its
\* documents and their chunks are absent from every lookup and relation, the
\* stats drop by exactly those entities, and everything that belongs to other
\* libraries is unchanged.
C3_DeleteLibraryCascades ==
    [][\A l \in DOMAIN libraries :
        (call'.op = "delete_library" /\ call'.args = <<l>>) =>
           LET ds == DocsOf(Cat, l)
               cs == ChunksOf(Cat, l)
           IN /\ ret' = RetBool(TRUE)
              /\ get_library(CatP, l) = RetNone
              /\ \A d \in ds : get_document(CatP, d) = RetNone
              /\ \A c \in cs : get_chunk(CatP, c) = RetNone
              /\ DOMAIN libraries' = DOMAIN libraries \ {l}
              /\ DOMAIN library_documents' = DOMAIN library_documents \ {l}
              /\ DOMAIN documents' = DOMAIN documents \ ds
              /\ DOMAIN document_chunks' = DOMAIN document_chunks \ ds
              /\ DOMAIN document_library' = DOMAIN document_library \ ds
              /\ DOMAIN chunks' = DOMAIN chunks \ cs
              /\ DOMAIN chunk_document' = DOMAIN chunk_document \ cs
              /\ get_stats(CatP).val.libraries_count
                    = get_stats(Cat).val.libraries_count - 1
              /\ get_stats(CatP).val.documents_count
                    = get_stats(Cat).val.documents_count - Cardinality(ds)
              /\ get_stats(CatP).val.chunks_count
                    = get_stats(Cat).val.chunks_count - Cardinality(cs)
              /\ (DOMAIN libraries = {l} =>
                    get_stats(CatP).val.total_entities = 0)
              /\ \A x \in DOMAIN libraries' :
                    /\ libraries'[x] = libraries[x]
                    /\ library_documents'[x] = library_documents[x]
              /\ \A x \in DOMAIN documents' :
                    /\ documents'[x] = documents[x]
                    /\ document_chunks'[x] = document_chunks[x]
                    /\ document_library'[x] = document_library[x]
              /\ \A x \in DOMAIN chunks' :
                    /\ chunks'[x] = chunks[x]
                    /\ chunk_document'[x] = chunk_document[x]
      ]_vars

\* a library was deleted while the other one keeps a document with a chunk
C3_Witness ==
    /\ call.op = "delete_library"
    /\ ret = RetBool(TRUE)
    /\ call.removed >= 3
    /\ \E l \in DOMAIN libraries : \E d \in library_documents[l] :
          document_chunks[d] # {}

C10_DeleteAbsentNoEffect ==
    [][/\ (call'.op = "delete_library" /\ call'.args[1] \notin DOMAIN libraries)
            => (ret' = RetBool(FALSE) /\ UNCHANGED catVars)
       /\ (call'.op = "delete_document" /\ call'.args[1] \notin DOMAIN documents)
            => (ret' = RetBool(FALSE) /\ UNCHANGED catVars)
       /\ (call'.op = "delete_chunk" /\ call'.args[1] \notin DOMAIN chunks)
            => (ret' = RetBool(FALSE) /\ UNCHANGED catVars)
       /\ (call'.op \in {"delete_library", "delete_document", "delete_chunk"}
           /\ call'.repeat)
            => (ret' = RetBool(FALSE) /\ UNCHANGED catVars)
      ]_vars

\* the same delete was issued again right after it had succeeded
C10_Witness ==
    /\ call.op \in {"delete_document", "delete_library"}
    /\ call.repeat
    /\ ret = RetBool(FALSE)
    /\ DOMAIN chunks # {}

----------------------------------------------------------------------------
(* Updates by field name, on a populated catalog *)

\* two libraries, each with one document holding one chunk
Populated ==
    LET s1 == create_library(EmptyCat, "l1", "v0", "v0", Now).s
        s2 == create_library(s1, "l2", "v0", "v0", Now).s
        s3 == create_document(s2, "d1", "v0", "v0", "l1", Now).s
        s4 == create_document(s3, "d2", "v0", "v0", "l2", Now).s
        s5 == create_chunk(s4, Chunk("c1", "d1", "v0", "v0", "v0", Now), "d1").s
    IN create_chunk(s5, Chunk("c2", "d2", "v0", "v0", "v0", Now), "d2").s

InitUpd ==
    /\ libraries = Populated.libraries
    /\ documents = Populated.documents
    /\ chunks = Populated.chunks
    /\ library_documents = Populated.library_documents
    /\ document_chunks = Populated.document_chunks
    /\ chunk_document = Populated.chunk_document
    /\ document_library = Populated.document_library
    /\ ret = RetNone
    /\ call = Call("init", <<>>)
    /\ lock = [owner |-> None, depth |-> 0]
    /\ pc = [t \in Threads |-> "idle"]
    /\ loc = [t \in Threads |-> IdleLoc]
    /\ committed = EmptyCat
    /\ indexes = <<>>

\* the fields the spec calls mutable, per entity
LibraryMutable == {"name", "metadata"}
DocumentMutable == {"title", "metadata"}
ChunkMutable == {"text", "embedding", "metadata"}

\* every non-empty assignment of payload values to a set of fields
Assignments(fields) ==
    UNION {[F -> Vals] : F \in SUBSET fields \ {{}}}

\* updates that name other fields: identity, creation time, child lists, and
\* a name the entity does not have
LibOtherUpdates ==
    {[id |-> "l2"], [created_at |-> Later], [documents |-> {}], [bogus |-> "v1"],
     [id |-> "l2", created_at |-> Later, name |-> "v1"]}

DocOtherUpdates ==
    {[id |-> "d2"], [created_at |-> Later], [chunks |-> {}], [bogus |-> "v1"],
     [id |-> "d2", created_at |-> Later, title |-> "v1"]}

ChunkOtherUpdates ==
    {[id |-> "c2"], [created_at |-> Later], [bogus |-> "v1"],
     [id |-> "c2", created_at |-> Later, text |-> "v1"]}

NextUpd ==
    \/ \E u \in Assignments(LibraryMutable) \cup LibOtherUpdates :
          UpdateLibrary("l1", u)
    \/ \E u \in Assignments(DocumentMutable) \cup DocOtherUpdates :
          UpdateDocument("d1", u)
    \/ \E u \in Assignments(ChunkMutable) \cup ChunkOtherUpdates :
          UpdateChunk("c1", u)
    \/ \E l \in LibIds : GetLibrary(l)
    \/ \E d \in DocIds : GetDocument(d)
    \/ \E c \in {"c1", "c2"} : GetChunk(c)

SpecUpd == InitUpd /\ [][NextUpd]_vars

\* C8: update_library, update_document and update_chunk never change the
\* target's id, creation time or parent back-reference, and never change a
\* relation map, whatever field names and values they are called with.
C8_UpdateKeepsIdentity ==
    [][(call'.op \in {"update_library", "update_document", "update_chunk"}) =>
          /\ UNCHANGED <<library_documents, document_chunks,
                         chunk_document, document_library>>
          /\ DOMAIN libraries' = DOMAIN libraries
          /\ DOMAIN documents' = DOMAIN documents
          /\ DOMAIN chunks' = DOMAIN chunks
          /\ \A l \in DOMAIN libraries :
                /\ libraries'[l].id = libraries[l].id
                /\ libraries'[l].created_at = libraries[l].created_at
          /\ \A d \in DOMAIN documents :
                /\ documents'[d].id = documents[d].id
                /\ documents'[d].created_at = documents[d].created_at
                /\ documents'[d].library_id = documents[d].library_id
          /\ \A c \in DOMAIN chunks :
                /\ chunks'[c].id = chunks[c].id
                /\ chunks'[c].created_at = chunks[c].created_at
                /\ chunks'[c].document_id = chunks[c].document_id
      ]_vars

\* the read that belongs to an update
GetFor(op, s, id) ==
    IF op = "update_library" THEN get_library(s, id)
    ELSE IF op = "update_document" THEN get_document(s, id)
    ELSE get_chunk(s, id)

MutableFor(op) ==
    IF op = "update_library" THEN LibraryMutable
    ELSE IF op = "update_document" THEN DocumentMutable
    ELSE ChunkMutable

----------------------------------------------------------------------------
(* Callers that assign to what they were handed *)

MutFields == {"name", "title", "text", "metadata"}

NextMut ==
    \/ \E v \in Payload : CreateLibrary("l1", v, "v0")
    \/ \E v \in Payload : CreateDocument("d1", v, "v0", "l1")
    \/ \E v \in Payload : CreateChunk(Chunk("c1", "d1", v, "v0", "v0", Now), "d1")
    \/ GetLibrary("l1")
    \/ GetDocument("d1")
    \/ GetChunk("c1")
    \/ GetAllLibraries
    \/ GetLibraryDocuments("l1")
    \/ GetDocumentChunks("d1")
    \/ GetLibraryChunks("l1")
    \/ UpdateLibrary("l1", [name |-> "v0"])
    \/ UpdateDocument("d1", [title |-> "v0"])
    \/ UpdateChunk("c1", [text |-> "v0"])
    \/ \E f \in MutFields : MutateReturned(f, "v1")
    \/ \E f \in MutFields : MutateReturnedElement(f, "v1")

SpecMut == Init /\ [][NextMut]_vars

\* what every catalog read returns in catalog s
ReadsOf(s) ==
    [get_library |-> [l \in LibIds |-> get_library(s, l)],
     get_all_libraries |-> get_all_libraries(s),
     get_document |-> [d \in DocIds |-> get_document(s, d)],
     get_library_documents |-> [l \in LibIds |-> get_library_documents(s, l)],
     get_chunk |-> [c \in ChunkIds |-> get_chunk(s, c)],
     get_document_chunks |-> [d \in DocIds |-> get_document_chunks(s, d)],
     get_library_chunks |-> [l \in LibIds |-> get_library_chunks(s, l)],
     get_stats |-> get_stats(s)]

\* C7: a value handed to a caller by create_*, get_*, a list operation or
\* update_* is independent of the store: assigning to it changes the result
\* of no later catalog read.
C7_ReturnedValuesIndependent ==
    [][call'.op = "mutate" => ReadsOf(CatP) = ReadsOf(Cat)]_vars

----------------------------------------------------------------------------
(* Threads: the calls statement by statement, under the catalog's RLock *)

\* variant: a plain Lock, which blocks its own holder too
LockAvailable_not_reentrant(t) == lock.owner = None

\* RLock.acquire does not block when the lock is free or held by the caller
LockAvailable(t) == lock.owner \in {None, t}

Acquire(t) == lock' = [owner |-> t, depth |-> lock.depth + 1]

\* leaving a "with self._lock:" block
Release(t) ==
    lock' = IF lock.owner # t THEN lock
            ELSE IF lock.depth <= 1 THEN [owner |-> None, depth |-> 0]
            ELSE [lock EXCEPT !.depth = @ - 1]

\* how many calls a thread makes
CallsPerThread == 1

DeleteOps == {"delete_library", "delete_document"}
ReadOps == {"get_library", "get_document", "get_chunk", "get_library_chunks",
            "get_all_libraries", "get_stats"}

\* the calls each thread issues
CallsOf(t) ==
    IF t = "w" THEN {<<"delete_library", <<l>>>> : l \in LibIds}
                    \cup {<<"delete_document", <<d>>>> : d \in DocIds}
    ELSE IF t = "k" THEN
        {<<"create_chunk", <<Chunk(c, d, "v0", "v0", "v0", Now), d>>>> :
            c \in ChunkIds, d \in DocIds}
    ELSE {<<"get_library", <<l>>>> : l \in LibIds}
         \cup {<<"get_document", <<d>>>> : d \in DocIds}
         \cup {<<"get_chunk", <<c>>>> : c \in ChunkIds}
         \cup {<<"get_library_chunks", <<l>>>> : l \in LibIds}
         \cup {<<"get_all_libraries", <<>>>>, <<"get_stats", <<>>>>}

\* some delete is between its first and its last statement
DeleteInFlight ==
    \E u \in Threads : loc[u].op \in DeleteOps /\ pc[u] \notin {"idle", "enter"}

Goto(t, label) == pc' = [pc EXCEPT ![t] = label]

\* the thread calls the operation
Invoke(t, c) ==
    /\ pc[t] = "idle"
    /\ UNCHANGED engVars
    /\ c \in CallsOf(t)
    /\ loc[t].calls < CallsPerThread
    /\ loc' = [loc EXCEPT ![t] = [IdleLoc EXCEPT !.op = c[1], !.args = c[2],
                                                 !.during = DeleteInFlight,
                                                 !.calls = loc[t].calls + 1]]
    /\ Goto(t, "enter")
    /\ UNCHANGED <<catVars, ret, call, lock, committed>>

FirstLabel(op) ==
    IF op = "delete_library" THEN "dl_check"
    ELSE IF op = "delete_document" THEN "dd_check"
    ELSE IF op = "create_chunk" THEN "cc_check"
    ELSE "read"

\* "with self._lock:" of the deleting calls
EnterDelete(t) ==
    /\ pc[t] = "enter"
    /\ UNCHANGED engVars
    /\ loc[t].op \in DeleteOps
    /\ LockAvailable(t)
    /\ Acquire(t)
    /\ loc' = [loc EXCEPT ![t].doc_id =
                  IF loc[t].op = "delete_document" THEN loc[t].args[1] ELSE None]
    /\ Goto(t, FirstLabel(loc[t].op))
    /\ UNCHANGED <<catVars, ret, call, committed>>

\* variant: create_chunk runs without taking the lock
EnterCreateUnlocked(t) ==
    /\ pc[t] = "enter"
    /\ UNCHANGED engVars
    /\ loc[t].op = "create_chunk"
    /\ Goto(t, "cc_check")
    /\ UNCHANGED <<catVars, ret, call, lock, loc, committed>>

\* "with self._lock:" of create_chunk
EnterCreate(t) ==
    /\ pc[t] = "enter"
    /\ UNCHANGED engVars
    /\ loc[t].op = "create_chunk"
    /\ LockAvailable(t)
    /\ Acquire(t)
    /\ Goto(t, "cc_check")
    /\ UNCHANGED <<catVars, ret, call, loc, committed>>

\* variant: a read runs without taking the lock
EnterReadUnlocked(t) ==
    /\ pc[t] = "enter"
    /\ UNCHANGED engVars
    /\ loc[t].op \in ReadOps
    /\ Goto(t, "read")
    /\ UNCHANGED <<catVars, ret, call, lock, loc, committed>>

\* "with self._lock:" of the reads
EnterRead(t) ==
    /\ pc[t] = "enter"
    /\ UNCHANGED engVars
    /\ loc[t].op \in ReadOps
    /\ LockAvailable(t)
    /\ Acquire(t)
    /\ Goto(t, "read")
    /\ UNCHANGED <<catVars, ret, call, loc, committed>>

\* the call returns r
Return(t, r) ==
    /\ loc' = [loc EXCEPT ![t] = [IdleLoc EXCEPT !.op = loc[t].op,
                                                 !.args = loc[t].args,
                                                 !.during = loc[t].during,
                                                 !.calls = loc[t].calls,
                                                 !.result = r]]
    /\ Goto(t, "exit")

\* an exception leaves the call; the with-block still releases the lock
Raise(t) == Return(t, RetError)

\* delete_library: if library_id not in self._libraries / document_ids = ....copy()
DlCheck(t) ==
    /\ pc[t] = "dl_check"
    /\ UNCHANGED engVars
    /\ IF loc[t].args[1] \notin DOMAIN libraries
       THEN Return(t, RetBool(FALSE))
       ELSE /\ loc' = [loc EXCEPT ![t].document_ids =
                          IF loc[t].args[1] \in DOMAIN library_documents
                          THEN library_documents[loc[t].args[1]] ELSE {}]
            /\ Goto(t, "dl_loop")
    /\ UNCHANGED <<catVars, ret, call, lock, committed>>

\* for doc_id in document_ids
DlLoop(t) ==
    /\ pc[t] = "dl_loop"
    /\ UNCHANGED engVars
    /\ IF loc[t].document_ids = {}
       THEN Goto(t, "dl_del_lib") /\ UNCHANGED loc
       ELSE \E d \in loc[t].document_ids :
               /\ loc' = [loc EXCEPT ![t].document_ids = @ \ {d}, ![t].doc_id = d]
               /\ Goto(t, "dd_check")
    /\ UNCHANGED <<catVars, ret, call, lock, committed>>

\* where _delete_document_internal returns to
AfterDd(t, b) ==
    IF loc[t].op = "delete_library"
    THEN Goto(t, "dl_loop") /\ UNCHANGED loc
    ELSE Return(t, RetBool(b))

\* _delete_document_internal: if document_id not in self._documents / chunk_ids = ...
DdCheck(t) ==
    /\ pc[t] = "dd_check"
    /\ UNCHANGED engVars
    /\ IF loc[t].doc_id \notin DOMAIN documents
       THEN AfterDd(t, FALSE)
       ELSE /\ loc' = [loc EXCEPT ![t].chunk_ids =
                          IF loc[t].doc_id \in DOMAIN document_chunks
                          THEN document_chunks[loc[t].doc_id] ELSE {}]
            /\ Goto(t, "dd_loop")
    /\ UNCHANGED <<catVars, ret, call, lock, committed>>

\* for chunk_id in chunk_ids
DdLoop(t) ==
    /\ pc[t] = "dd_loop"
    /\ UNCHANGED engVars
    /\ IF loc[t].chunk_ids = {}
       THEN Goto(t, "dd_unlink") /\ UNCHANGED loc
       ELSE \E c \in loc[t].chunk_ids :
               /\ loc' = [loc EXCEPT ![t].chunk_ids = @ \ {c}, ![t].chunk_id = c]
               /\ Goto(t, "dc_check")
    /\ UNCHANGED <<catVars, ret, call, lock, committed>>

\* _delete_chunk_internal: absent check, then discard from document->chunks
DcCheck(t) ==
    /\ pc[t] = "dc_check"
    /\ UNCHANGED engVars
    /\ LET c == loc[t].chunk_id
           d == Get(chunk_document, c)
       IN IF c \notin DOMAIN chunks
          THEN Goto(t, "dd_loop") /\ UNCHANGED document_chunks
          ELSE /\ document_chunks' =
                     IF d # None /\ d \in DOMAIN document_chunks
                     THEN [document_chunks EXCEPT ![d] = @ \ {c}]
                     ELSE document_chunks
               /\ Goto(t, "dc_del")
    /\ UNCHANGED <<libraries, documents, chunks, library_documents,
                   chunk_document, document_library, ret, call, lock, loc, committed>>

\* del self._chunks[chunk_id]
DcDel(t) ==
    /\ pc[t] = "dc_del"
    /\ UNCHANGED engVars
    /\ IF loc[t].chunk_id \in DOMAIN chunks
       THEN /\ chunks' = Del(chunks, loc[t].chunk_id)
            /\ Goto(t, "dc_rev")
            /\ UNCHANGED loc
       ELSE Raise(t) /\ UNCHANGED chunks
    /\ UNCHANGED <<libraries, documents, library_documents, document_chunks,
                   chunk_document, document_library, ret, call, lock, committed>>

\* if chunk_id in self._chunk_document: del ...
DcRev(t) ==
    /\ pc[t] = "dc_rev"
    /\ UNCHANGED engVars
    /\ chunk_document' = Del(chunk_document, loc[t].chunk_id)
    /\ Goto(t, "dd_loop")
    /\ UNCHANGED <<libraries, documents, chunks, library_documents, document_chunks,
                   document_library, ret, call, lock, loc, committed>>

\* discard the document from its library's set
DdUnlink(t) ==
    /\ pc[t] = "dd_unlink"
    /\ UNCHANGED engVars
    /\ LET d == loc[t].doc_id
           l == Get(document_library, d)
       IN library_documents' =
             IF l # None /\ l \in DOMAIN library_documents
             THEN [library_documents EXCEPT ![l] = @ \ {d}]
             ELSE library_documents
    /\ Goto(t, "dd_del_doc")
    /\ UNCHANGED <<libraries, documents, chunks, document_chunks, chunk_document,
                   document_library, ret, call, lock, loc, committed>>

\* del self._documents[document_id]
DdDelDoc(t) ==
    /\ pc[t] = "dd_del_doc"
    /\ UNCHANGED engVars
    /\ IF loc[t].doc_id \in DOMAIN documents
       THEN /\ documents' = Del(documents, loc[t].doc_id)
            /\ Goto(t, "dd_del_dc")
            /\ UNCHANGED loc
       ELSE Raise(t) /\ UNCHANGED documents
    /\ UNCHANGED <<libraries, chunks, library_documents, document_chunks,
                   chunk_document, document_library, ret, call, lock, committed>>

\* del self._document_chunks[document_id]
DdDelDc(t) ==
    /\ pc[t] = "dd_del_dc"
    /\ UNCHANGED engVars
    /\ IF loc[t].doc_id \in DOMAIN document_chunks
       THEN /\ document_chunks' = Del(document_chunks, loc[t].doc_id)
            /\ Goto(t, "dd_del_dl")
            /\ UNCHANGED loc
       ELSE Raise(t) /\ UNCHANGED document_chunks
    /\ UNCHANGED <<libraries, documents, chunks, library_documents,
                   chunk_document, document_library, ret, call, lock, committed>>

\* if document_id in self._document_library: del ... ; return True
DdDelDl(t) ==
    /\ pc[t] = "dd_del_dl"
    /\ UNCHANGED engVars
    /\ document_library' = Del(document_library, loc[t].doc_id)
    /\ AfterDd(t, TRUE)
    /\ UNCHANGED <<libraries, documents, chunks, library_documents, document_chunks,
                   chunk_document, ret, call, lock, committed>>

\* del self._libraries[library_id]
DlDelLib(t) ==
    /\ pc[t] = "dl_del_lib"
    /\ UNCHANGED engVars
    /\ IF loc[t].args[1] \in DOMAIN libraries
       THEN /\ libraries' = Del(libraries, loc[t].args[1])
            /\ Goto(t, "dl_del_ld")
            /\ UNCHANGED loc
       ELSE Raise(t) /\ UNCHANGED libraries
    /\ UNCHANGED <<documents, chunks, library_documents, document_chunks,
                   chunk_document, document_library, ret, call, lock, committed>>

\* del self._library_documents[library_id] ; return True
DlDelLd(t) ==
    /\ pc[t] = "dl_del_ld"
    /\ UNCHANGED engVars
    /\ IF loc[t].args[1] \in DOMAIN library_documents
       THEN /\ library_documents' = Del(library_documents, loc[t].args[1])
            /\ Return(t, RetBool(TRUE))
       ELSE Raise(t) /\ UNCHANGED library_documents
    /\ UNCHANGED <<libraries, documents, chunks, document_chunks,
                   chunk_document, document_library, ret, call, lock, committed>>

\* create_chunk: the parent check and the id check
CcCheck(t) ==
    /\ pc[t] = "cc_check"
    /\ UNCHANGED engVars
    /\ IF loc[t].args[2] \notin DOMAIN documents THEN Return(t, RetNone)
       ELSE IF loc[t].args[1].id \in DOMAIN chunks THEN Raise(t)
       ELSE Goto(t, "cc_store") /\ UNCHANGED loc
    /\ UNCHANGED <<catVars, ret, call, lock, committed>>

\* self._chunks[chunk.id] = chunk_copy
CcStore(t) ==
    /\ pc[t] = "cc_store"
    /\ UNCHANGED engVars
    /\ chunks' = Put(chunks, loc[t].args[1].id, loc[t].args[1])
    /\ Goto(t, "cc_link")
    /\ UNCHANGED <<libraries, documents, library_documents, document_chunks,
                   chunk_document, document_library, ret, call, lock, loc, committed>>

\* self._document_chunks[document_id].add(chunk.id)
CcLink(t) ==
    /\ pc[t] = "cc_link"
    /\ UNCHANGED engVars
    /\ IF loc[t].args[2] \in DOMAIN document_chunks
       THEN /\ document_chunks' =
                  [document_chunks EXCEPT ![loc[t].args[2]] = @ \cup {loc[t].args[1].id}]
            /\ Goto(t, "cc_rev")
            /\ UNCHANGED loc
       ELSE Raise(t) /\ UNCHANGED document_chunks
    /\ UNCHANGED <<libraries, documents, chunks, library_documents,
                   chunk_document, document_library, ret, call, lock, committed>>

\* self._chunk_document[chunk.id] = document_id ; return deepcopy(chunk_copy)
CcRev(t) ==
    /\ pc[t] = "cc_rev"
    /\ UNCHANGED engVars
    /\ chunk_document' = Put(chunk_document, loc[t].args[1].id, loc[t].args[2])
    /\ Return(t, Ret("chunk", loc[t].args[1], FALSE, loc[t].args[1].id))
    /\ UNCHANGED <<libraries, documents, chunks, library_documents, document_chunks,
                   document_library, ret, call, lock, committed>>

\* what the read operation op returns in catalog s
ReadOp(s, op, args) ==
    IF op = "get_library" THEN get_library(s, args[1])
    ELSE IF op = "get_document" THEN get_document(s, args[1])
    ELSE IF op = "get_chunk" THEN get_chunk(s, args[1])
    ELSE IF op = "get_library_chunks" THEN get_library_chunks(s, args[1])
    ELSE IF op = "get_all_libraries" THEN get_all_libraries(s)
    ELSE get_stats(s)

\* the body of a read
DoRead(t) ==
    /\ pc[t] = "read"
    /\ UNCHANGED engVars
    /\ Return(t, ReadOp(Cat, loc[t].op, loc[t].args))
    /\ UNCHANGED <<catVars, ret, call, lock, committed>>

\* the with-block ends and the call returns to its caller
Exit(t) ==
    /\ pc[t] = "exit"
    /\ UNCHANGED engVars
    /\ Release(t)
    /\ committed' = IF lock.owner = t /\ lock'.owner = None THEN Cat ELSE committed
    /\ ret' = loc[t].result
    /\ call' = Call(loc[t].op, loc[t].args)
    /\ Goto(t, "idle")
    /\ UNCHANGED <<catVars, loc>>

\* one library holding a document with a chunk, one holding an empty document
ConcStart ==
    LET s1 == create_library(EmptyCat, "l1", "v0", "v0", Now).s
        s2 == create_library(s1, "l2", "v0", "v0", Now).s
        s3 == create_document(s2, "d1", "v0", "v0", "l1", Now).s
        s4 == create_document(s3, "d2", "v0", "v0", "l2", Now).s
    IN create_chunk(s4, Chunk("c1", "d1", "v0", "v0", "v0", Now), "d1").s

InitConc ==
    /\ libraries = ConcStart.libraries
    /\ documents = ConcStart.documents
    /\ chunks = ConcStart.chunks
    /\ library_documents = ConcStart.library_documents
    /\ document_chunks = ConcStart.document_chunks
    /\ chunk_document = ConcStart.chunk_document
    /\ document_library = ConcStart.document_library
    /\ ret = RetNone
    /\ call = Call("init", <<>>)
    /\ lock = [owner |-> None, depth |-> 0]
    /\ pc = [t \in Threads |-> "idle"]
    /\ loc = [t \in Threads |-> IdleLoc]
    /\ committed = ConcStart
    /\ indexes = <<>>

NextConc ==
    \E t \in Threads :
        \/ \E c \in CallsOf(t) : Invoke(t, c)
        \/ EnterDelete(t)
        \/ EnterCreate(t)
        \/ EnterRead(t)
        \/ DlCheck(t)
        \/ DlLoop(t)
        \/ DdCheck(t)
        \/ DdLoop(t)
        \/ DcCheck(t)
        \/ DcDel(t)
        \/ DcRev(t)
        \/ DdUnlink(t)
        \/ DdDelDoc(t)
        \/ DdDelDc(t)
        \/ DdDelDl(t)
        \/ DlDelLib(t)
        \/ DlDelLd(t)
        \/ CcCheck(t)
        \/ CcStore(t)
        \/ CcLink(t)
        \/ CcRev(t)
        \/ DoRead(t)
        \/ Exit(t)

SpecConc == InitConc /\ [][NextConc]_vars

\* C4: a read running in another thread while delete_library(L) runs returns
\* what it would return either in the catalog as it was before the delete or
\* in the catalog with L and all its descendants removed, never a state in
\* between; and delete_library hands the catalog over with exactly that
\* complete removal done.
C4_ReadsSeeWholeDeletes ==
    [][\A t \in Threads :
          /\ (pc[t] = "read" /\ pc'[t] = "exit")
                => loc'[t].result = ReadOp(committed, loc[t].op, loc[t].args)
          /\ (/\ pc[t] = "exit" /\ pc'[t] = "idle"
              /\ loc[t].op = "delete_library"
              /\ loc[t].result = RetBool(TRUE))
                => /\ Cat = delete_library(committed, loc[t].args[1]).s
                   /\ committed' = Cat]_vars

\* a get_library(L) called while delete_library(L) was between its first and
\* last statement has returned, and it saw L gone
C4_Witness ==
    /\ pc["r"] = "idle"
    /\ loc["r"].during
    /\ loc["r"].op = "get_library"
    /\ loc["r"].result = RetNone
    /\ loc["w"].op = "delete_library"
    /\ loc["w"].args = loc["r"].args
    /\ loc["w"].result = RetBool(TRUE)

\* the delete in w removes document d or the library that held d at the start
DeletesAncestor(d) ==
    \/ loc["w"].op = "delete_document" /\ loc["w"].args[1] = d
    \/ loc["w"].op = "delete_library"
       /\ loc["w"].args[1] = Get(ConcStart.document_library, d)

\* both the creating and the deleting thread are outside any call
Quiet == pc["w"] = "idle" /\ pc["k"] = "idle"

\* C6: when create_chunk of a new chunk under document D and a successful
\* delete of D or of D's library have both finished, whatever the
\* interleaving, create_chunk has returned either the chunk (it was stored
\* before the delete, and the cascade removed it) or None (parent missing),
\* no chunk remains under D, and no stored chunk names a document that is
\* not stored.
C6_CreateRacesDelete ==
    Quiet =>
        /\ \A c \in DOMAIN chunks :
              /\ Get(chunk_document, c) \in DOMAIN documents
              /\ c \in Get(document_chunks, Get(chunk_document, c))
        /\ (/\ loc["k"].op = "create_chunk"
            /\ loc["k"].calls = 1
            /\ loc["k"].args[1].id \notin DOMAIN ConcStart.chunks
            /\ DeletesAncestor(loc["k"].args[2])
            /\ loc["w"].result = RetBool(TRUE))
              => /\ \/ loc["k"].result = RetNone
                    \/ loc["k"].result.kind = "chunk"
                 /\ loc["k"].args[2] \notin DOMAIN documents
                 /\ \A c \in DOMAIN chunks :
                       /\ Get(chunk_document, c) # loc["k"].args[2]
                       /\ chunks[c].document_id # loc["k"].args[2]

\* create_chunk under D was called while the delete of D's library was
\* between its first and last statement, and returned None afterwards
C6_Witness ==
    /\ Quiet
    /\ loc["k"].op = "create_chunk"
    /\ loc["k"].during
    /\ loc["k"].args[1].id \notin DOMAIN ConcStart.chunks
    /\ loc["w"].op = "delete_library"
    /\ DeletesAncestor(loc["k"].args[2])
    /\ loc["w"].result = RetBool(TRUE)
    /\ loc["k"].result = RetNone

----------------------------------------------------------------------------
(* The nested read *)

\* C11: for every stored library L, get_library(L).documents holds exactly
\* the stored documents whose parent (document->library) is L, and each of
\* them carries exactly the stored chunks whose parent (chunk->document) is
\* that document, after any sequence of calls.
C11_GetLibraryNestsChildren ==
    \A l \in DOMAIN libraries :
        get_library_val(Cat, l).documents =
            {DocumentView(documents[d],
                          {chunks[c] : c \in {x \in DOMAIN chunks :
                                                 Get(chunk_document, x) = d}}) :
                d \in {y \in DOMAIN documents : Get(document_library, y) = l}}

\* get_library has returned a library with a document carrying a chunk,
\* while another library holds a document with a chunk of its own
C11_Witness ==
    /\ call.op = "get_library"
    /\ ret.kind = "library"
    /\ \E doc \in ret.val.documents : doc.chunks # {}
    /\ \E d \in DOMAIN documents :
          /\ document_library[d] # ret.val.id
          /\ document_chunks[d] # {}

----------------------------------------------------------------------------
(* Indexes (app/indexes): embeddings are sequences of integers.  A distance *)
(* is kept exactly, in a form that depends on the metric:                   *)
(*   euclidean    [k |-> "sq",  a |-> S]          the distance is sqrt(S)    *)
(*   dot_product  [k |-> "int", a |-> n]          the distance is n          *)
(*   cosine       [k |-> "cos", a |-> D, b |-> N] the distance is            *)
(*                                                1 - D / sqrt(N)            *)
(* so comparisons are those of the real numbers (float32 rounding is not    *)
(* modelled).                                                               *)

RECURSIVE Dot(_, _)
\* np.dot of two vectors of equal length
Dot(u, v) == IF u = <<>> THEN 0 ELSE Head(u) * Head(v) + Dot(Tail(u), Tail(v))

\* BaseIndex._calculate_similarity: [ok, distance], ok = FALSE when it raises
calculate_similarity(vec1, vec2, metric) ==
    LET n1 == Dot(vec1, vec1)
        n2 == Dot(vec2, vec2)
        \* v1 - v2 with numpy broadcasting of a one-element vector
        wide == IF Len(vec1) >= Len(vec2) THEN vec1 ELSE vec2
        diff == [i \in 1..Len(wide) |->
                    (IF Len(vec1) = 1 THEN vec1[1] ELSE vec1[i])
                  - (IF Len(vec2) = 1 THEN vec2[1] ELSE vec2[i])]
        aligned == Len(vec1) = Len(vec2)
        broadcast == aligned \/ Len(vec1) = 1 \/ Len(vec2) = 1
    IN IF n1 = 0 \/ n2 = 0 THEN
            [ok |-> TRUE,
             distance |-> IF metric = "euclidean" THEN [k |-> "sq", a |-> 1]
                          ELSE IF metric = "cosine" THEN [k |-> "cos", a |-> 0, b |-> 1]
                          ELSE [k |-> "int", a |-> 1]]
       ELSE IF metric = "cosine" THEN
            IF aligned
            THEN [ok |-> TRUE,
                  distance |-> [k |-> "cos", a |-> Dot(vec1, vec2), b |-> n1 * n2]]
            ELSE [ok |-> FALSE, distance |-> None]
       ELSE IF metric = "euclidean" THEN
            IF broadcast
            THEN [ok |-> TRUE, distance |-> [k |-> "sq", a |-> Dot(diff, diff)]]
            ELSE [ok |-> FALSE, distance |-> None]
       ELSE IF metric = "dot_product" THEN
            IF aligned
            THEN [ok |-> TRUE, distance |-> [k |-> "int", a |-> 0 - Dot(vec1, vec2)]]
            ELSE [ok |-> FALSE, distance |-> None]
       ELSE [ok |-> FALSE, distance |-> None]

\* x < y for two distances under one metric
DistLess(x, y) ==
    IF x.k = "cos"
    THEN IF x.a >= 0 /\ y.a < 0 THEN TRUE
         ELSE IF x.a < 0 /\ y.a >= 0 THEN FALSE
         ELSE IF x.a >= 0 THEN x.a * x.a * y.b > y.a * y.a * x.b
         ELSE x.a * x.a * y.b < y.a * y.a * x.b
    ELSE x.a < y.a

\* abs(diff) < x for an integer diff and a distance x
AbsLess(diff, x) ==
    IF x.k = "sq" THEN diff * diff < x.a
    ELSE IF x.k = "int" THEN (IF diff < 0 THEN 0 - diff ELSE diff) < x.a
    ELSE IF diff = 0 THEN ~(x.a > 0 /\ x.a * x.a = x.b)
    ELSE IF diff \in {1, 0 - 1} THEN x.a < 0
    ELSE FALSE

\* list.sort(key=...): stable, ascending; Less compares two elements' keys
StableSort(s, Less(_, _)) ==
    LET n == Len(s)
        pos(i) == 1 + Cardinality({j \in 1..n :
                        Less(s[j], s[i]) \/ (~Less(s[i], s[j]) /\ j < i)})
    IN [p \in 1..n |-> s[CHOOSE i \in 1..n : pos(i) = p]]

\* variant: the list is left in the order it has
SortByDistance_unsorted(results) == results

\* results.sort(key=lambda x: x.distance)
SortByDistance(results) ==
    LET Less(x, y) == DistLess(x.distance, y.distance)
    IN StableSort(results, Less)

\* s[:k] for k >= 0
Take(s, k) == SubSeq(s, 1, IF k < Len(s) THEN k ELSE Len(s))

\* the absent KDTreeNode (None)
NoNode == [empty |-> TRUE]

\* BaseIndex.__init__ and the subclasses' fields
Index(kind) ==
    [kind |-> kind, indexed_chunks |-> <<>>, is_built |-> FALSE,
     root |-> NoNode, dimensions |-> 0]

\* what a search hands back
Hits(results) == Ret("hits", results, FALSE, None)

\* BruteForceIndex.index
BruteForceIndex_index(idx, cs) ==
    Result([idx EXCEPT !.indexed_chunks = cs, !.is_built = TRUE], RetNone)

\* BruteForceIndex.search
BruteForceIndex_search(idx, query, k, metric) ==
    LET n == Len(idx.indexed_chunks)
        kk == IF k < n THEN k ELSE n
        sim(i) == calculate_similarity(query, idx.indexed_chunks[i].embedding, metric)
        all == [i \in 1..n |-> [chunk |-> idx.indexed_chunks[i],
                                ok |-> sim(i).ok,
                                distance |-> sim(i).distance]]
        Computed(r) == r.ok
        Strip(r) == [chunk |-> r.chunk, distance |-> r.distance]
        kept == SelectSeq(all, Computed)
        results == [i \in 1..Len(kept) |-> Strip(kept[i])]
    IN IF ~idx.is_built \/ n = 0 THEN Hits(<<>>)
       ELSE IF query = <<>> THEN RetError
       ELSE IF kk <= 0 THEN Hits(<<>>)
       ELSE Hits(Take(SortByDistance(results), kk))

\* BruteForceIndex.add_chunk
BruteForceIndex_add_chunk(idx, chunk) ==
    IF \E i \in 1..Len(idx.indexed_chunks) : idx.indexed_chunks[i] = chunk
    THEN Result(idx, RetNone)
    ELSE Result([idx EXCEPT !.indexed_chunks = Append(@, chunk), !.is_built = TRUE],
                RetNone)

\* BruteForceIndex.remove_chunk
BruteForceIndex_remove_chunk(idx, chunk_id) ==
    LET Other(c) == c.id # chunk_id
    IN Result([idx EXCEPT !.indexed_chunks = SelectSeq(@, Other)], RetNone)

RECURSIVE build_tree(_, _, _)
\* KDTreeIndex._build_tree
build_tree(cs, depth, dimensions) ==
    IF cs = <<>> THEN NoNode
    ELSE LET axis == depth % dimensions
             Less(x, y) == x.embedding[axis + 1] < y.embedding[axis + 1]
             sorted == StableSort(cs, Less)
             median_idx == Len(cs) \div 2
         IN [empty |-> FALSE,
             chunk |-> sorted[median_idx + 1],
             axis |-> axis,
             left |-> build_tree(SubSeq(sorted, 1, median_idx), depth + 1, dimensions),
             right |-> build_tree(SubSeq(sorted, median_idx + 2, Len(cs)),
                                  depth + 1, dimensions)]

\* KDTreeIndex.index; on an error the fields assigned before it keep their
\* new values
KDTreeIndex_index(idx, cs) ==
    IF cs = <<>>
    THEN Result([idx EXCEPT !.root = NoNode, !.indexed_chunks = <<>>,
                            !.is_built = TRUE], RetNone)
    ELSE LET d == Len(cs[1].embedding)
         IN IF \E i \in 1..Len(cs) : Len(cs[i].embedding) # d
            THEN Result([idx EXCEPT !.dimensions = d], RetError)
            ELSE IF d = 0
            THEN Result([idx EXCEPT !.dimensions = d, !.indexed_chunks = cs],
                        Ret("error", "ZeroDivisionError", FALSE, None))
            ELSE Result([idx EXCEPT !.dimensions = d, !.indexed_chunks = cs,
                                    !.root = build_tree(cs, 0, d),
                                    !.is_built = TRUE], RetNone)

RECURSIVE search_node(_, _, _, _, _)
\* search_node inside KDTreeIndex.search; best is [results, error]
search_node(node, best, query, k, metric) ==
    IF node.empty \/ best.error THEN best
    ELSE LET sim == calculate_similarity(query, node.chunk.embedding, metric)
             hit == [chunk |-> node.chunk, distance |-> sim.distance]
             r0 == best.results
             r1 == IF ~sim.ok THEN r0
                   ELSE IF Len(r0) < k THEN SortByDistance(Append(r0, hit))
                   ELSE IF DistLess(sim.distance, r0[Len(r0)].distance)
                   THEN SortByDistance([r0 EXCEPT ![Len(r0)] = hit])
                   ELSE r0
             axis == node.axis
         IN IF axis + 1 > Len(query) \/ axis + 1 > Len(node.chunk.embedding)
            THEN [results |-> r1, error |-> TRUE]
            ELSE LET diff == query[axis + 1] - node.chunk.embedding[axis + 1]
                     near == IF diff <= 0 THEN node.left ELSE node.right
                     far == IF diff <= 0 THEN node.right ELSE node.left
                     b2 == search_node(near, [results |-> r1, error |-> FALSE],
                                       query, k, metric)
                 IN IF b2.error THEN b2
                    ELSE IF Len(b2.results) < k
                            \/ AbsLess(diff, b2.results[Len(b2.results)].distance)
                    THEN search_node(far, b2, query, k, metric)
                    ELSE b2

\* KDTreeIndex.search
KDTreeIndex_search(idx, query, k, metric) ==
    LET n == Len(idx.indexed_chunks)
        kk == IF k < n THEN k ELSE n
        best == search_node(idx.root, [results |-> <<>>, error |-> FALSE],
                            query, kk, metric)
    IN IF ~idx.is_built \/ idx.root.empty THEN Hits(<<>>)
       ELSE IF query = <<>> THEN RetError
       ELSE IF Len(query) # idx.dimensions THEN RetError
       ELSE IF kk <= 0 THEN Hits(<<>>)
       ELSE IF best.error THEN Ret("error", "IndexError", FALSE, None)
       ELSE Hits(best.results)

\* KDTreeIndex.add_chunk
KDTreeIndex_add_chunk(idx, chunk) ==
    IF \E i \in 1..Len(idx.indexed_chunks) : idx.indexed_chunks[i] = chunk
    THEN Result(idx, RetNone)
    ELSE KDTreeIndex_index([idx EXCEPT !.indexed_chunks = Append(@, chunk)],
                           Append(idx.indexed_chunks, chunk))

\* KDTreeIndex.remove_chunk
KDTreeIndex_remove_chunk(idx, chunk_id) ==
    LET Other(c) == c.id # chunk_id
        rest == SelectSeq(idx.indexed_chunks, Other)
    IN KDTreeIndex_index([idx EXCEPT !.indexed_chunks = rest], rest)

----------------------------------------------------------------------------
(* The query engine (app/services/vector_index_service.py).  e is the      *)
(* engine's _indexes map: library id -> [index_type, idx].                  *)

\* idx.index(chunks) on an index of either class
Index_index(idx, cs) ==
    IF idx.kind = "kdtree" THEN KDTreeIndex_index(idx, cs)
    ELSE BruteForceIndex_index(idx, cs)

\* idx.search(query, k, similarity_metric)
Index_search(idx, query, k, metric) ==
    IF idx.kind = "kdtree" THEN KDTreeIndex_search(idx, query, k, metric)
    ELSE BruteForceIndex_search(idx, query, k, metric)

\* idx.add_chunk(chunk)
Index_add_chunk(idx, chunk) ==
    IF idx.kind = "kdtree" THEN KDTreeIndex_add_chunk(idx, chunk)
    ELSE BruteForceIndex_add_chunk(idx, chunk)

\* idx.remove_chunk(chunk_id)
Index_remove_chunk(idx, chunk_id) ==
    IF idx.kind = "kdtree" THEN KDTreeIndex_remove_chunk(idx, chunk_id)
    ELSE BruteForceIndex_remove_chunk(idx, chunk_id)

\* VectorIndexService._index_types and _default_type
IndexTypes == {"brute_force", "kdtree"}
DefaultType == "brute_force"

\* metadata values as Python sees them: None, numbers, strings (sequences of
\* characters), lists and nested dicts; "==" between values of different
\* types is False.  The type comes first in the record, so that two values
\* of different types are told apart by it alone.
PyNone == [kind |-> "none", val |-> 0]
Num(n) == [kind |-> "num", val |-> n]
Str(s) == [kind |-> "str", val |-> s]
List(s) == [kind |-> "list", val |-> s]
Dict(d) == [kind |-> "dict", val |-> d]

\* Python's a == b
PyEq(a, b) == a.kind = b.kind /\ a.val = b.val

\* Python's "a in expected" for a list expected
PyIn(a, expected) == \E i \in 1..Len(expected) : PyEq(a, expected[i])

\* str.lower()
Lower(name) == [i \in 1..Len(name) |-> IF name[i] = "A" THEN "a" ELSE name[i]]

\* Python's "a in b" for two strings
Substring(a, b) ==
    \E i \in 0..(Len(b) - Len(a)) : SubSeq(b, i + 1, i + Len(a)) = a

\* key.split('.') for the keys used here
Split(key) == IF key = "author.name" THEN <<"author", "name">> ELSE <<key>>

RECURSIVE Descend(_, _)
\* the loop shared by _get_nested_value and _has_nested_key: the value the
\* path leads to, or "missing"
Descend(value, keys) ==
    IF keys = <<>> THEN [found |-> TRUE, value |-> value]
    ELSE IF value.kind = "dict" /\ Head(keys) \in DOMAIN value.val
         THEN Descend(value.val[Head(keys)], Tail(keys))
    ELSE [found |-> FALSE, value |-> PyNone]

\* MetadataFilter._get_nested_value
get_nested_value(metadata, key) == Descend(Dict(metadata), Split(key)).value

\* MetadataFilter._has_nested_key
has_nested_key(metadata, key) == Descend(Dict(metadata), Split(key)).found

Digits ==
    ("0" :> 0) @@ ("1" :> 1) @@ ("2" :> 2) @@ ("3" :> 3) @@ ("4" :> 4) @@
    ("5" :> 5) @@ ("6" :> 6) @@ ("7" :> 7) @@ ("8" :> 8) @@ ("9" :> 9)

\* MetadataFilter._parse_date for strings of ten characters: YYYY-MM-DD,
\* YYYY/MM/DD or DD/MM/YYYY give a date (here the number YYYYMMDD), anything
\* else gives None (here 0)
parse_date(x) ==
    LET s == x.val
        N(i) == Digits[s[i]]
        AllDigits(S) == \A i \in S : s[i] \in DOMAIN Digits
        Date(y, m, d) == IF m \in 1..12 /\ d \in 1..31 THEN y * 10000 + m * 100 + d ELSE 0
    IN IF x.kind # "str" \/ Len(s) # 10 THEN 0
       ELSE IF s[5] = s[8] /\ s[5] \in {"-", "/"} /\ AllDigits({1, 2, 3, 4, 6, 7, 9, 10})
            THEN Date(N(1) * 1000 + N(2) * 100 + N(3) * 10 + N(4), N(6) * 10 + N(7), N(9) * 10 + N(10))
       ELSE IF s[3] = "/" /\ s[6] = "/" /\ AllDigits({1, 2, 4, 5, 7, 8, 9, 10})
            THEN Date(N(7) * 1000 + N(8) * 100 + N(9) * 10 + N(10), N(4) * 10 + N(5), N(1) * 10 + N(2))
       ELSE 0

\* MetadataFilter._evaluate_condition.  A condition is
\* [bare |-> TRUE, value |-> v] (not a dict) or [bare |-> FALSE, ops |-> o]
\* with o the dict's items in order, each <<operator, expected>>.  The order operators are given numbers,
\* $in and $nin lists, $contains and $regex strings without regex
\* metacharacters, $exists a boolean.
evaluate_condition(metadata, key, condition) ==
    LET value == get_nested_value(metadata, key)
        Holds(op, expected) ==
            IF op = "$eq" THEN PyEq(value, expected)
               ELSE IF op = "$ne" THEN ~PyEq(value, expected)
               ELSE IF op = "$gt" THEN value.kind = "num" /\ value.val > expected.val
               ELSE IF op = "$gte" THEN value.kind = "num" /\ value.val >= expected.val
               ELSE IF op = "$lt" THEN value.kind = "num" /\ value.val < expected.val
               ELSE IF op = "$lte" THEN value.kind = "num" /\ value.val <= expected.val
               ELSE IF op = "$in" THEN PyIn(value, expected)
               ELSE IF op = "$nin" THEN ~PyIn(value, expected)
               ELSE IF op \in {"$contains", "$regex"}
                    THEN value.kind = "str" /\ Substring(Lower(expected.val), Lower(value.val))
               ELSE IF op = "$exists" THEN expected = has_nested_key(metadata, key)
               ELSE IF op = "$date_after"
                    THEN /\ parse_date(value) # 0 /\ parse_date(expected) # 0
                         /\ parse_date(value) > parse_date(expected)
               ELSE IF op = "$date_before"
                    THEN /\ parse_date(value) # 0 /\ parse_date(expected) # 0
                         /\ parse_date(value) < parse_date(expected)
               ELSE IF op = "$date_range"
                    THEN /\ parse_date(value) # 0
                         /\ parse_date(expected.start) # 0 /\ parse_date(expected.end) # 0
                         /\ parse_date(expected.start) <= parse_date(value)
                         /\ parse_date(value) <= parse_date(expected.end)
               ELSE TRUE
    IN IF condition.bare THEN PyEq(value, condition.value)
       ELSE \A i \in 1..Len(condition.ops) : Holds(condition.ops[i][1], condition.ops[i][2])

\* MetadataFilter.apply_filter
apply_filter(chunk_metadata, filter_conditions) ==
    \A key \in DOMAIN filter_conditions :
        evaluate_condition(chunk_metadata, key, filter_conditions[key])

\* variant: the name is validated, the active index stays
set_index_type_keeps(e, library_id, index_type) ==
    IF index_type \notin IndexTypes THEN Result(e, RetError) ELSE Result(e, RetNone)

\* VectorIndexService.set_index_type
set_index_type(e, library_id, index_type) ==
    IF index_type \notin IndexTypes THEN Result(e, RetError)
    ELSE IF library_id \in DOMAIN e THEN Result(Del(e, library_id), RetNone)
    ELSE Result(e, RetNone)

\* VectorIndexService.get_index_type
get_index_type(e, library_id) ==
    IF library_id \in DOMAIN e THEN e[library_id].index_type ELSE DefaultType

\* variant: the new index is stored before its build is known to succeed
index_library_installs_first(e, library_id, cs, index_type) ==
    LET type == IF index_type \in {None, ""} THEN get_index_type(e, library_id)
                ELSE index_type
        built == Index_index(Index(type), cs)
    IN IF type \notin IndexTypes THEN Result(e, RetError)
       ELSE Result(Put(e, library_id, [index_type |-> type, idx |-> built.s]), built.ret)

\* VectorIndexService.index_library; index_type None or "" means "not given"
index_library(e, library_id, cs, index_type) ==
    LET type == IF index_type \in {None, ""} THEN get_index_type(e, library_id)
                ELSE index_type
        built == Index_index(Index(type), cs)
    IN IF type \notin IndexTypes THEN Result(e, RetError)
       ELSE IF built.ret.kind = "error" THEN Result(e, built.ret)
       ELSE Result(Put(e, library_id, [index_type |-> type, idx |-> built.s]), RetNone)

\* variant: every matching result is kept
KeepMatching_all(results, metadata_filter, k, filtered) ==
    LET Matches(r) == apply_filter(r.chunk.metadata, metadata_filter)
    IN filtered \o SelectSeq(results, Matches)

RECURSIVE KeepMatching(_, _, _, _)
\* the filtering loop of search_similar_chunks: walk results in order, keep
\* the matching ones, stop once k are kept (the test follows the append)
KeepMatching(results, metadata_filter, k, filtered) ==
    IF results = <<>> THEN filtered
    ELSE IF apply_filter(Head(results).chunk.metadata, metadata_filter)
    THEN IF Len(filtered) + 1 >= k THEN Append(filtered, Head(results))
         ELSE KeepMatching(Tail(results), metadata_filter, k,
                           Append(filtered, Head(results)))
    ELSE KeepMatching(Tail(results), metadata_filter, k, filtered)

\* VectorIndexService.search_similar_chunks; the filter that is not given
\* (None, or an empty dict) is the empty mapping
search_similar_chunks(e, library_id, query_embedding, k, similarity_metric, metadata_filter) ==
    LET filtering == DOMAIN metadata_filter # {}
        initial_k == IF filtering THEN k * 3 ELSE k
        found == Index_search(e[library_id].idx, query_embedding, initial_k,
                              similarity_metric)
    IN IF library_id \notin DOMAIN e THEN Hits(<<>>)
       ELSE IF found.kind = "error" THEN found
       ELSE IF filtering THEN Hits(KeepMatching(found.val, metadata_filter, k, <<>>))
       ELSE Hits(Take(found.val, IF k < 0 THEN Len(found.val) + k ELSE k))

\* VectorIndexService.add_chunk_to_index
add_chunk_to_index(e, library_id, chunk) ==
    LET e1 == IF library_id \in DOMAIN e THEN e
              ELSE Put(e, library_id,
                       [index_type |-> DefaultType, idx |-> Index("brute_force")])
        added == Index_add_chunk(e1[library_id].idx, chunk)
    IN Result([e1 EXCEPT ![library_id].idx = added.s], added.ret)

\* VectorIndexService.remove_chunk_from_index
remove_chunk_from_index(e, library_id, chunk_id) ==
    IF library_id \notin DOMAIN e THEN Result(e, RetNone)
    ELSE LET removed == Index_remove_chunk(e[library_id].idx, chunk_id)
         IN Result([e EXCEPT ![library_id].idx = removed.s], removed.ret)

----------------------------------------------------------------------------
(* Calls of the query engine *)

\* ghost: the call, with the number of active indexes it discarded
EngCall(op, args) ==
    [Call(op, args) EXCEPT
        !.removed = IF Cardinality(DOMAIN indexes') < Cardinality(DOMAIN indexes)
                    THEN 1 ELSE 0]

SetIndexType(l, t) ==
    /\ indexes' = set_index_type(indexes, l, t).s
    /\ ret' = set_index_type(indexes, l, t).ret
    /\ UNCHANGED <<catVars, thrVars>>
    /\ call' = EngCall("set_index_type", <<l, t>>)

GetIndexType(l) ==
    /\ ret' = Ret("str", get_index_type(indexes, l), FALSE, None)
    /\ UNCHANGED <<catVars, thrVars, engVars>>
    /\ call' = EngCall("get_index_type", <<l>>)

IndexLibrary(l, cs, t) ==
    /\ indexes' = index_library(indexes, l, cs, t).s
    /\ ret' = index_library(indexes, l, cs, t).ret
    /\ UNCHANGED <<catVars, thrVars>>
    /\ call' = EngCall("index_library", <<l, cs, t>>)

SearchSimilarChunks(l, q, k, metric, f) ==
    /\ ret' = search_similar_chunks(indexes, l, q, k, metric, f)
    /\ UNCHANGED <<catVars, thrVars, engVars>>
    /\ call' = EngCall("search_similar_chunks", <<l, q, k, metric, f>>)

AddChunkToIndex(l, chunk) ==
    /\ indexes' = add_chunk_to_index(indexes, l, chunk).s
    /\ ret' = add_chunk_to_index(indexes, l, chunk).ret
    /\ UNCHANGED <<catVars, thrVars>>
    /\ call' = EngCall("add_chunk_to_index", <<l, chunk>>)

RemoveChunkFromIndex(l, c) ==
    /\ indexes' = remove_chunk_from_index(indexes, l, c).s
    /\ ret' = remove_chunk_from_index(indexes, l, c).ret
    /\ UNCHANGED <<catVars, thrVars>>
    /\ call' = EngCall("remove_chunk_from_index", <<l, c>>)

\* the chunks handed to the engine: four chunks of one library, at growing
\* distance from <<1, 0>>, with a category in their metadata
EngChunk(i) ==
    LET embedding == <<(<<1, 0>>), (<<1, 1>>), (<<0, 1>>), (<<0 - 1, 0>>)>>
        category == <<1, 1, 2, 3>>
    IN Chunk(AllChunkIds[i], "d1", "v0", embedding[i], [cat |-> Num(category[i])], Now)

EngChunks == <<EngChunk(1), EngChunk(2), EngChunk(3), EngChunk(4)>>

\* the chunk lists given to index_library
EngLists == {<<>>, EngChunks, SubSeq(EngChunks, 1, 2)}

\* variant names given by callers: known, unknown, empty, and not given
TypeNames == IndexTypes \cup {"hnsw", "", None}

NoFilter == <<>>

Filters ==
    {NoFilter,
     [cat |-> [bare |-> TRUE, value |-> Num(1)]],
     [cat |-> [bare |-> FALSE, ops |-> <<(<<"$gt", Num(2)>>)>>]],
     [cat |-> [bare |-> FALSE, ops |-> <<(<<"$in", <<Num(2), Num(3)>>>>)>>]],
     [cat |-> [bare |-> FALSE, ops |-> <<(<<"$ne", Num(1)>>), (<<"$lt", Num(3)>>)>>]],
     [tag |-> [bare |-> FALSE, ops |-> <<(<<"$exists", TRUE>>)>>]]}

EngQueries == {<<1, 0>>}

MaxK == 2

NextEng ==
    \/ \E l \in LibIds, t \in TypeNames \ {None} : SetIndexType(l, t)
    \/ \E l \in LibIds : GetIndexType(l)
    \/ \E cs \in EngLists, t \in TypeNames : IndexLibrary("l1", cs, t)
    \/ \E t \in {"kdtree", None} : IndexLibrary("l2", EngChunks, t)
    \/ \E q \in EngQueries, k \in 1..MaxK, m \in {"cosine", "euclidean"},
          f \in Filters : SearchSimilarChunks("l1", q, k, m, f)
    \/ \E i \in 3..4 : AddChunkToIndex("l1", EngChunks[i])
    \/ \E i \in 3..4 : RemoveChunkFromIndex("l1", AllChunkIds[i])

SpecEng == Init /\ [][NextEng]_vars

----------------------------------------------------------------------------
(* Properties of the query engine *)

\* C12: set_index_type(L, v) with a known name leaves L without an active
\* index; L gets an active index again only by index_library or
\* add_chunk_to_index for L; and every search on a library without an
\* active index returns the empty list.
C12_SetIndexTypeDiscards ==
    [][/\ (call'.op = "set_index_type" /\ ret'.kind # "error")
             => call'.args[1] \notin DOMAIN indexes'
       /\ \A l \in LibIds :
             (l \notin DOMAIN indexes /\ l \in DOMAIN indexes')
                => /\ call'.op \in {"index_library", "add_chunk_to_index"}
                   /\ call'.args[1] = l
       /\ (call'.op = "search_similar_chunks" /\ call'.args[1] \notin DOMAIN indexes)
             => ret' = Hits(<<>>)]_vars

\* set_index_type has just discarded the active index of l1
C12_Witness ==
    /\ call.op = "set_index_type"
    /\ call.args = <<"l1", "kdtree">>
    /\ call.removed = 1
    /\ "l1" \notin DOMAIN indexes

\* C13: get_index_type(L) called right after a successful
\* set_index_type(L, v) returns v.
C13_GetIndexTypeReturnsDeclared ==
    [][(/\ call.op = "set_index_type"
        /\ ret.kind # "error"
        /\ call'.op = "get_index_type"
        /\ call'.args[1] = call.args[1])
          => ret'.val = call.args[2]]_vars

\* C14: set_index_type and index_library called with a variant name outside
\* {brute_force, kdtree} fail and leave the engine's indexes unchanged.
C14_UnknownVariantRejected ==
    [][/\ (call'.op = "set_index_type" /\ call'.args[2] \notin IndexTypes)
             => ret'.kind = "error" /\ indexes' = indexes
       /\ (call'.op = "index_library" /\ call'.args[3] \notin IndexTypes \cup {None})
             => ret'.kind = "error" /\ indexes' = indexes]_vars

\* C15: right after a successful set_index_type(L, "kdtree"), an
\* index_library(L, chunks) without a variant override, or an
\* add_chunk_to_index(L, chunk), leaves L with a KD-tree index.
C15_DeclaredVariantGoverns ==
    [][(/\ call.op = "set_index_type"
        /\ call.args[2] = "kdtree"
        /\ ret.kind # "error"
        /\ call'.args[1] = call.args[1]
        /\ ret'.kind # "error"
        /\ \/ call'.op = "index_library" /\ call'.args[3] = None
           \/ call'.op = "add_chunk_to_index")
          => /\ indexes'[call.args[1]].index_type = "kdtree"
             /\ indexes'[call.args[1]].idx.kind = "kdtree"]_vars

\* C16: a search with a metadata filter and k >= 1 returns at most k hits,
\* each hit's chunk metadata satisfies the filter, the hits are in
\* non-decreasing distance order, and they appear in the order in which the
\* index ranked them.
C16_FilteredSearchSound ==
    [][(/\ call'.op = "search_similar_chunks"
        /\ DOMAIN call'.args[5] # {}
        /\ ret'.kind = "hits")
          => LET hits == ret'.val
                 k == call'.args[3]
                 ranking == IF call'.args[1] \in DOMAIN indexes
                            THEN Index_search(indexes[call'.args[1]].idx,
                                              call'.args[2], k * 3, call'.args[4]).val
                            ELSE <<>>
                 Rank(h) == CHOOSE p \in 1..Len(ranking) : ranking[p] = h
             IN /\ Len(hits) <= k
                /\ \A i \in 1..Len(hits) :
                      /\ apply_filter(hits[i].chunk.metadata, call'.args[5])
                      /\ \E p \in 1..Len(ranking) : ranking[p] = hits[i]
                /\ \A i, j \in 1..Len(hits) :
                      i < j => /\ ~DistLess(hits[j].distance, hits[i].distance)
                               /\ Rank(hits[i]) < Rank(hits[j])]_vars

\* a filtered search with k = 1 skipped the two nearest chunks, which do not
\* match, and returned the third, although a fourth chunk matches as well
C16_Witness ==
    /\ call.op = "search_similar_chunks"
    /\ call.args[3] = 1
    /\ DOMAIN call.args[5] # {}
    /\ ret.kind = "hits"
    /\ Len(ret.val) = 1
    /\ ret.val[1].chunk.id = "c3"
    /\ "l1" \in DOMAIN indexes
    /\ Len(indexes["l1"].idx.indexed_chunks) = 4
    /\ apply_filter(EngChunks[4].metadata, call.args[5])

\* C17: a filtered search returns min(k, m) hits, m being the number of
\* indexed chunks whose metadata satisfies the filter (all chunks here have
\* the query's dimension).
C17_FilteredSearchComplete ==
    [][(/\ call'.op = "search_similar_chunks"
        /\ DOMAIN call'.args[5] # {}
        /\ call'.args[1] \in DOMAIN indexes
        /\ ret'.kind = "hits")
          => LET cs == indexes[call'.args[1]].idx.indexed_chunks
                 m == Cardinality({i \in 1..Len(cs) :
                                      apply_filter(cs[i].metadata, call'.args[5])})
                 k == call'.args[3]
             IN Len(ret'.val) = IF k < m THEN k ELSE m]_vars

----------------------------------------------------------------------------
(* The two index classes behind the engine: one library, an index of an     *)
(* explicitly named class built once over a list of chunks with embeddings  *)
(* drawn from a small set, then searched without a filter (the engine then  *)
(* hands back idx.search(query, k, metric)[:k]).                            *)

\* embeddings: the zero vector, four vectors of the plane, and one vector of
\* another length
Vectors == {<<0, 0>>, <<0, 1>>, <<0, 0 - 1>>, <<1, 0 - 1>>, <<1, 1>>, <<1>>}

MaxIndexed == 3

\* the chunk with the i-th id and the embedding v
IdxChunk(i, v) == [EngChunk(i) EXCEPT !.embedding = v]

\* lists of up to MaxIndexed chunks with different ids
IdxLists ==
    UNION {{[i \in 1..n |-> IdxChunk(i, vs[i])] : vs \in [1..n -> Vectors]} :
           n \in 0..MaxIndexed}

NextIdx ==
    \/ /\ "l1" \notin DOMAIN indexes
       /\ \E cs \in IdxLists, t \in IndexTypes : IndexLibrary("l1", cs, t)
    \/ \E q \in Vectors, k \in 1..MaxK, m \in {"cosine", "euclidean"} :
          SearchSimilarChunks("l1", q, k, m, NoFilter)

SpecIdx == Init /\ [][NextIdx]_vars

\* the state follows an unfiltered search that returned hits from l1's index
Searched ==
    /\ call.op = "search_similar_chunks"
    /\ ret.kind = "hits"
    /\ "l1" \in DOMAIN indexes

\* the hits are in non-decreasing order of the distance they carry
Ascending(hits) ==
    \A i, j \in 1..Len(hits) :
        i < j => ~DistLess(hits[j].distance, hits[i].distance)

\* C18: for both index classes, after index(C), search(q, k) with k >= 1
\* returns at most min(k, |C|) hits in non-decreasing distance order, and
\* returns every chunk of C when k >= |C| and all chunks have the query's
\* dimension.
C18_SearchBounded ==
    Searched =>
        LET cs == indexes["l1"].idx.indexed_chunks
            q == call.args[2]
            k == call.args[3]
            hits == ret.val
        IN /\ Len(hits) <= k
           /\ Len(hits) <= Len(cs)
           /\ Ascending(hits)
           /\ (k >= Len(cs) /\ \A i \in 1..Len(cs) : Len(cs[i].embedding) = Len(q))
                 => /\ Len(hits) = Len(cs)
                    /\ {hits[i].chunk : i \in 1..Len(hits)}
                         = {cs[i] : i \in 1..Len(cs)}

\* a KD-tree over three chunks was searched with k = 2 and returned two hits
\* at different distances; and a search with k >= |C| returned all of C
C18_Witness ==
    /\ Searched
    /\ indexes["l1"].idx.kind = "kdtree"
    /\ Len(indexes["l1"].idx.indexed_chunks) = 3
    /\ call.args[3] = 2
    /\ Len(ret.val) = 2
    /\ DistLess(ret.val[1].distance, ret.val[2].distance)

\* the distance of the metric itself, for two vectors of one length:
\* cosine 1 - u.v / (|u| |v|), and 1 where a norm is zero; euclidean |u - v|
TrueDistance(u, v, metric) ==
    LET diff == [i \in 1..Len(u) |-> u[i] - v[i]]
    IN IF metric = "euclidean" THEN [k |-> "sq", a |-> Dot(diff, diff)]
       ELSE IF Dot(u, u) = 0 \/ Dot(v, v) = 0 THEN [k |-> "cos", a |-> 0, b |-> 1]
       ELSE [k |-> "cos", a |-> Dot(u, v), b |-> Dot(u, u) * Dot(v, v)]

\* C19: the linear index's search returns k nearest neighbours of the query
\* among the indexed chunks under the metric's true distance (min(k, |C|)
\* chunks, none of them farther than a chunk left out), nearest first; the
\* chunks here all have the query's dimension.
C19_LinearIsExactKnn ==
    (/\ Searched
     /\ indexes["l1"].idx.kind = "brute_force"
     /\ \A i \in 1..Len(indexes["l1"].idx.indexed_chunks) :
           Len(indexes["l1"].idx.indexed_chunks[i].embedding) = Len(call.args[2]))
      => LET cs == indexes["l1"].idx.indexed_chunks
             q == call.args[2]
             k == call.args[3]
             hits == ret.val
             True(c) == TrueDistance(q, c.embedding, call.args[4])
             returned == {hits[i].chunk : i \in 1..Len(hits)}
             left == {cs[i] : i \in 1..Len(cs)} \ returned
         IN /\ Len(hits) = (IF k < Len(cs) THEN k ELSE Len(cs))
            /\ \A h \in returned, c \in left : ~DistLess(True(c), True(h))
            /\ \A i, j \in 1..Len(hits) :
                  i < j => ~DistLess(True(hits[j].chunk), True(hits[i].chunk))

\* the distances carried by a list of hits, in order
Distances(hits) == [i \in 1..Len(hits) |-> hits[i].distance]

\* C20: on a chunk list of uniform dimension and a query of that dimension,
\* the KD-tree index returns what the linear index built on the same list
\* returns, under cosine and under euclidean, up to the choice among chunks
\* at equal distance (the two results carry the same distances in order).
C20_KDTreeMatchesLinear ==
    (/\ Searched
     /\ indexes["l1"].idx.kind = "kdtree")
      => LET cs == indexes["l1"].idx.indexed_chunks
             linear == BruteForceIndex_index(Index("brute_force"), cs).s
             expected == BruteForceIndex_search(linear, call.args[2], call.args[3],
                                                call.args[4]).val
         IN Distances(ret.val) = Distances(expected)

----------------------------------------------------------------------------
(* One index object driven through its own methods (app/indexes): the       *)
(* object is kept under "l1" of indexes and starts as the constructor       *)
(* leaves it, not built.                                                    *)

\* the index object
TheIndex == indexes["l1"].idx

InitIndex ==
    /\ Init!1 /\ Init!2 /\ Init!3 /\ Init!4 /\ Init!5 /\ Init!6 /\ Init!7
    /\ Init!8 /\ Init!9 /\ Init!10 /\ Init!11 /\ Init!12 /\ Init!13
    /\ \E kind \in IndexTypes :
          indexes = ("l1" :> [index_type |-> kind, idx |-> Index(kind)])

\* each action below is one method call: the object after it, what it
\* returned or raised, and the call itself

IndexBuild(cs) ==
    /\ indexes' = [indexes EXCEPT !["l1"].idx = Index_index(TheIndex, cs).s]
    /\ ret' = Index_index(TheIndex, cs).ret
    /\ call' = Call("index", <<cs>>)
    /\ UNCHANGED <<catVars, thrVars>>

IndexSearch(q, k, metric) ==
    /\ ret' = Index_search(TheIndex, q, k, metric)
    /\ call' = Call("search", <<q, k, metric>>)
    /\ UNCHANGED <<catVars, thrVars, engVars>>

IndexAdd(chunk) ==
    /\ Len(TheIndex.indexed_chunks) < MaxIndexed
    /\ indexes' = [indexes EXCEPT !["l1"].idx = Index_add_chunk(TheIndex, chunk).s]
    /\ ret' = Index_add_chunk(TheIndex, chunk).ret
    /\ call' = Call("add_chunk", <<chunk>>)
    /\ UNCHANGED <<catVars, thrVars>>

IndexRemove(c) ==
    /\ indexes' = [indexes EXCEPT !["l1"].idx = Index_remove_chunk(TheIndex, c).s]
    /\ ret' = Index_remove_chunk(TheIndex, c).ret
    /\ call' = Call("remove_chunk", <<c>>)
    /\ UNCHANGED <<catVars, thrVars>>

\* chunks given to the index: two of the plane under one id, and under a
\* second id the zero vector, a vector of another length and an empty one
ObjChunks ==
    {IdxChunk(1, <<1, 0>>), IdxChunk(1, <<0, 1>>),
     IdxChunk(2, <<0, 0>>), IdxChunk(2, <<1>>), IdxChunk(2, <<>>)}

\* lists of up to two of them, for index()
ObjLists ==
    {<<>>} \cup {<<c>> : c \in ObjChunks}
           \cup UNION {{<<c, d>> : d \in ObjChunks \ {c}} : c \in ObjChunks}

\* queries: of the plane, zero, of another length, empty
ObjQueries == {<<1, 0>>, <<0, 0>>, <<1>>, <<>>}

\* metric names: two known ones and an unknown one
ObjMetrics == {"cosine", "euclidean", "manhattan"}

NextIndex ==
    \/ \E cs \in ObjLists : IndexBuild(cs)
    \/ \E q \in ObjQueries, k \in 1..MaxK, m \in ObjMetrics : IndexSearch(q, k, m)
    \/ \E c \in ObjChunks : IndexAdd(c)
    \/ \E i \in 1..3 : IndexRemove(AllChunkIds[i])

SpecIndex == InitIndex /\ [][NextIndex]_vars

----------------------------------------------------------------------------
(* Properties of the index object *)

\* the index holds a tree built over a non-empty chunk list
TreeBuilt ==
    /\ TheIndex.kind = "kdtree"
    /\ TheIndex.is_built
    /\ ~TheIndex.root.empty

\* C21: on a KD-tree built over a non-empty chunk list of dimension d, a
\* search with a non-empty query of another length raises the ValueError
\* that stands for DimensionMismatch, returns no hits and leaves the index
\* as it was.
C21_QueryDimensionChecked ==
    [][(/\ call'.op = "search"
        /\ TreeBuilt
        /\ call'.args[1] # <<>>
        /\ Len(call'.args[1]) # Len(TheIndex.root.chunk.embedding))
          => /\ ret' = RetError
             /\ indexes' = indexes]_vars

\* the chunks of a list have embeddings of one length
Uniform(cs) == \A i, j \in 1..Len(cs) : Len(cs[i].embedding) = Len(cs[j].embedding)

\* C22: for both index classes, index(C) with embeddings of different
\* lengths in C raises the ValueError that stands for DimensionMismatch, so
\* a built index never holds chunks of two dimensions.
C22_BuildRejectsMixedDimensions ==
    [][/\ (call'.op = "index" /\ ~Uniform(call'.args[1])) => ret' = RetError
       /\ indexes'["l1"].idx.is_built
             => Uniform(indexes'["l1"].idx.indexed_chunks)]_vars

\* the ids of the chunks of a list are all different
DistinctIds(cs) == \A i, j \in 1..Len(cs) : cs[i].id = cs[j].id => i = j

\* C23: for both index classes, add_chunk of a chunk whose id is already
\* indexed leaves the index as it was, whatever the chunk's other fields;
\* so an add never makes two indexed chunks share an id.
C23_AddSameIdIsNoOp ==
    [][call'.op = "add_chunk"
          => /\ (\E i \in 1..Len(TheIndex.indexed_chunks) :
                    TheIndex.indexed_chunks[i].id = call'.args[1].id)
                   => indexes' = indexes
             /\ DistinctIds(TheIndex.indexed_chunks)
                   => DistinctIds(indexes'["l1"].idx.indexed_chunks)]_vars

\* C24: for both index classes and every state of the index (never built,
\* built empty, built non-empty), remove_chunk of an id that is not indexed
\* changes nothing: not the indexed chunks, not the built flag, not the
\* result of any later search.
C24_RemoveAbsentIsNoOp ==
    [][(/\ call'.op = "remove_chunk"
        /\ \A i \in 1..Len(TheIndex.indexed_chunks) :
              TheIndex.indexed_chunks[i].id # call'.args[1])
          => LET after == indexes'["l1"].idx
             IN /\ ret'.kind # "error"
                /\ after.indexed_chunks = TheIndex.indexed_chunks
                /\ after.is_built = TheIndex.is_built
                /\ \A q \in ObjQueries, k \in 1..MaxK, m \in ObjMetrics :
                      Index_search(after, q, k, m) = Index_search(TheIndex, q, k, m)]_vars

\* C25: for both index classes, a search with an empty query raises the
\* ValueError that stands for EmptyQuery and returns no list, whether the
\* built index holds chunks or is empty.
C25_EmptyQueryRejected ==
    [][(/\ call'.op = "search"
        /\ call'.args[1] = <<>>
        /\ TheIndex.is_built)
          => ret' = RetError]_vars

\* C26: the linear index's search does not fail on, and does not return, a
\* chunk whose embedding has another length than the query (an empty or
\* all-zero embedding and an all-zero query included): it returns what a
\* search over the chunks of the query's length returns.
C26_LinearSkipsOtherLengths ==
    [][(/\ call'.op = "search"
        /\ TheIndex.kind = "brute_force"
        /\ TheIndex.is_built
        /\ call'.args[1] # <<>>
        /\ call'.args[3] \in {"cosine", "euclidean"})
          => LET q == call'.args[1]
                 SameLength(c) == Len(c.embedding) = Len(q)
                 rest == [TheIndex EXCEPT !.indexed_chunks = SelectSeq(@, SameLength)]
             IN /\ ret'.kind = "hits"
                /\ \A i \in 1..Len(ret'.val) : SameLength(ret'.val[i].chunk)
                /\ ret' = BruteForceIndex_search(rest, q, call'.args[2],
                                                 call'.args[3])]_vars

\* the metric names of the kernel
Metrics == {"cosine", "euclidean", "dot_product"}

\* C27: with a metric name outside the kernel's, the kernel raises for every
\* pair of vectors, and a search on a built index that holds chunks raises
\* too instead of handing back a list.
C27_UnknownMetricRejected ==
    [][(/\ call'.op = "search"
        /\ call'.args[3] \notin Metrics
        /\ call'.args[1] # <<>>
        /\ TheIndex.is_built
        /\ TheIndex.indexed_chunks # <<>>)
          => /\ ret'.kind = "error"
             /\ \A i \in 1..Len(TheIndex.indexed_chunks) :
                   ~calculate_similarity(call'.args[1],
                                         TheIndex.indexed_chunks[i].embedding,
                                         call'.args[3]).ok]_vars

\* C28: under euclidean the kernel returns the true distance of two vectors
\* of one length, the zero vector included (the zero-norm case is cosine's
\* alone), so every vector is at distance 0 from itself; seen on the
\* distances (squared, over integer vectors) that a search hands back.
C28_EuclideanIsTrueDistance ==
    (/\ call.op = "search"
     /\ call.args[3] = "euclidean"
     /\ ret.kind = "hits")
      => \A i \in 1..Len(ret.val) :
            LET v == ret.val[i].chunk.embedding
            IN Len(v) = Len(call.args[1])
                  => /\ ret.val[i].distance = TrueDistance(call.args[1], v, "euclidean")
                     /\ v = call.args[1] => ret.val[i].distance.a = 0

----------------------------------------------------------------------------
(* The query engine called from several threads.  VectorIndexService takes  *)
(* no lock around _indexes, so every statement that reads or writes the     *)
(* mapping is a step of its own.  An index object is told from the others   *)
(* by the thread that constructed it (oid); a thread that looked an index   *)
(* up holds that object, whatever the mapping says later.                   *)

KeyError == "KeyError"

\* the locals of a thread in an engine call
EngLoc == [op |-> None, args |-> <<>>, oid |-> None, result |-> RetNone, calls |-> 0]

\* the engine calls each thread issues, all on library l1
EngCallsOf(t) ==
    IF t = "w" THEN {<<"add_chunk_to_index", <<"l1", EngChunk(1)>>>>}
    ELSE IF t = "k" THEN {<<"add_chunk_to_index", <<"l1", EngChunk(2)>>>>,
                          <<"set_index_type", <<"l1", "kdtree">>>>}
    ELSE {<<"search_similar_chunks", <<"l1", <<1, 0>>, MaxK, "cosine", NoFilter>>>>,
          <<"set_index_type", <<"l1", "kdtree">>>>}

EngFirstLabel(op) ==
    IF op = "add_chunk_to_index" THEN "a_check"
    ELSE IF op = "set_index_type" THEN "s_check"
    ELSE "q_check"

\* a step of thread t that touches neither the catalog nor the lock
EngStep(t, label, newloc) ==
    /\ pc' = [pc EXCEPT ![t] = label]
    /\ loc' = [loc EXCEPT ![t] = newloc]
    /\ UNCHANGED <<catVars, ret, call, lock, committed>>

\* the thread calls an engine method
EngInvoke(t, c) ==
    /\ pc[t] = "idle"
    /\ c \in EngCallsOf(t)
    /\ loc[t].calls < CallsPerThread
    /\ EngStep(t, EngFirstLabel(c[1]),
               [EngLoc EXCEPT !.op = c[1], !.args = c[2], !.calls = loc[t].calls + 1])
    /\ UNCHANGED engVars

\* add_chunk_to_index: "if library_id not in self._indexes:"
AddCheck(t) ==
    /\ pc[t] = "a_check"
    /\ EngStep(t, IF loc[t].args[1] \notin DOMAIN indexes THEN "a_new" ELSE "a_get",
               loc[t])
    /\ UNCHANGED engVars

\* "self._indexes[library_id] = (self._default_type, BruteForceIndex())"
AddNew(t) ==
    /\ pc[t] = "a_new"
    /\ indexes' = Put(indexes, loc[t].args[1],
                      [index_type |-> DefaultType,
                       idx |-> Index("brute_force") @@ [oid |-> t]])
    /\ EngStep(t, "a_get", loc[t])

\* "_, idx = self._indexes[library_id]" of add_chunk_to_index
AddGet(t) ==
    /\ pc[t] = "a_get"
    /\ IF loc[t].args[1] \in DOMAIN indexes
       THEN EngStep(t, "a_add", [loc[t] EXCEPT !.oid = indexes[loc[t].args[1]].idx.oid])
       ELSE EngStep(t, "exit",
                    [loc[t] EXCEPT !.result = Ret("error", KeyError, FALSE, None)])
    /\ UNCHANGED engVars

\* "idx.add_chunk(chunk)": on the object the thread holds; the mapping shows
\* the chunk only if that object is still the library's index
AddAdd(t) ==
    /\ pc[t] = "a_add"
    /\ LET l == loc[t].args[1]
           held == l \in DOMAIN indexes /\ indexes[l].idx.oid = loc[t].oid
       IN indexes' = IF held
                     THEN [indexes EXCEPT ![l].idx =
                              Index_add_chunk(indexes[l].idx, loc[t].args[2]).s]
                     ELSE indexes
    /\ EngStep(t, "exit", [loc[t] EXCEPT !.result = RetNone])

\* set_index_type: the name is checked, then "if library_id in self._indexes:"
SetCheck(t) ==
    /\ pc[t] = "s_check"
    /\ IF loc[t].args[2] \notin IndexTypes
       THEN EngStep(t, "exit", [loc[t] EXCEPT !.result = RetError])
       ELSE IF loc[t].args[1] \in DOMAIN indexes
       THEN EngStep(t, "s_del", loc[t])
       ELSE EngStep(t, "exit", [loc[t] EXCEPT !.result = RetNone])
    /\ UNCHANGED engVars

\* "del self._indexes[library_id]"
SetDel(t) ==
    /\ pc[t] = "s_del"
    /\ IF loc[t].args[1] \in DOMAIN indexes
       THEN /\ indexes' = Del(indexes, loc[t].args[1])
            /\ EngStep(t, "exit", [loc[t] EXCEPT !.result = RetNone])
       ELSE /\ UNCHANGED engVars
            /\ EngStep(t, "exit",
                       [loc[t] EXCEPT !.result = Ret("error", KeyError, FALSE, None)])

\* search_similar_chunks: "if library_id not in self._indexes: return []"
SearchCheck(t) ==
    /\ pc[t] = "q_check"
    /\ IF loc[t].args[1] \notin DOMAIN indexes
       THEN EngStep(t, "exit", [loc[t] EXCEPT !.result = Hits(<<>>)])
       ELSE EngStep(t, "q_get", loc[t])
    /\ UNCHANGED engVars

\* "_, idx = self._indexes[library_id]" and the search on that object
SearchGet(t) ==
    /\ pc[t] = "q_get"
    /\ LET a == loc[t].args
       IN IF a[1] \in DOMAIN indexes
          THEN EngStep(t, "exit",
                       [loc[t] EXCEPT !.result =
                           search_similar_chunks(indexes, a[1], a[2], a[3], a[4], a[5])])
          ELSE EngStep(t, "exit",
                       [loc[t] EXCEPT !.result = Ret("error", KeyError, FALSE, None)])
    /\ UNCHANGED engVars

\* the call is over: what it returned or raised reaches the caller
EngExit(t) ==
    /\ pc[t] = "exit"
    /\ pc' = [pc EXCEPT ![t] = "idle"]
    /\ ret' = loc[t].result
    /\ call' = Call(loc[t].op, loc[t].args)
    /\ UNCHANGED <<catVars, lock, loc, committed, engVars>>

InitEngConc ==
    /\ Init!1 /\ Init!2 /\ Init!3 /\ Init!4 /\ Init!5 /\ Init!6 /\ Init!7
    /\ Init!8 /\ Init!9 /\ Init!10 /\ Init!11 /\ Init!13 /\ Init!14
    /\ loc = [t \in Threads |-> EngLoc]

NextEngConc ==
    \E t \in Threads :
        \/ \E c \in EngCallsOf(t) : EngInvoke(t, c)
        \/ AddCheck(t) \/ AddNew(t) \/ AddGet(t) \/ AddAdd(t)
        \/ SetCheck(t) \/ SetDel(t)
        \/ SearchCheck(t) \/ SearchGet(t)
        \/ EngExit(t)

SpecEngConc == InitEngConc /\ [][NextEngConc]_vars

\* every thread is outside a call
EngQuiet == \A t \in Threads : pc[t] = "idle"

\* C29: engine calls made by several threads behave as if run one at a time:
\* no call fails on a missing entry of the mapping, and once the two
\* add_chunk_to_index calls have returned with no set_index_type issued,
\* the library's index holds both chunks.
C29_EngineCallsAtomic ==
    /\ \A t \in Threads : loc[t].result # Ret("error", KeyError, FALSE, None)
    /\ (/\ EngQuiet
        /\ \A t \in {"w", "k"} : loc[t].op = "add_chunk_to_index"
        /\ loc["r"].op # "set_index_type")
          => /\ "l1" \in DOMAIN indexes
             /\ {"c1", "c2"} \subseteq
                    {indexes["l1"].idx.indexed_chunks[i].id :
                        i \in 1..Len(indexes["l1"].idx.indexed_chunks)}

----------------------------------------------------------------------------
(* LibraryService (app/services/library_service.py) called from several     *)
(* threads.  The service holds no lock of its own; each repository call it  *)
(* makes runs under the repository's lock and is one step.  Names are       *)
(* sequences of characters.                                                 *)

RECURSIVE Strip(_)
\* str.strip()
Strip(name) ==
    IF name = <<>> THEN name
    ELSE IF Head(name) = " " THEN Strip(Tail(name))
    ELSE IF name[Len(name)] = " " THEN Strip(SubSeq(name, 1, Len(name) - 1))
    ELSE name

\* the two checks on a name that need no stored state
NameAccepted(name) == Len(Strip(name)) >= 3 /\ Strip(name) = name

\* "for lib in existing_libraries: if ... lib.name.lower() == name.lower()"
\* over the list get_all_libraries returned, leaving out the library own_id
NameTaken(existing, name, own_id) ==
    \E lib \in existing : lib.id # own_id /\ Lower(lib.name) = Lower(name)

\* names given by callers: two that differ in case only, another one, one
\* that is too short and one with a leading blank
SvcNames ==
    {<<"A", "b", "c">>, <<"a", "b", "c">>, <<"x", "y", "z">>, <<"a", "b">>,
     <<" ", "a", "b", "c">>}

\* the service calls each thread issues; a created library gets a fresh id
SvcCallsOf(t) ==
    IF t = "w" THEN {<<"create_library", <<"l1", n>>>> : n \in SvcNames}
    ELSE IF t = "k" THEN {<<"create_library", <<"l2", n>>>> : n \in SvcNames}
    ELSE {<<"update_library", <<l, n>>>> : l \in LibIds, n \in SvcNames}

\* a step of thread t that makes no repository write
SvcStep(t, label, result) ==
    /\ pc' = [pc EXCEPT ![t] = label]
    /\ loc' = [loc EXCEPT ![t].result = result]
    /\ UNCHANGED <<catVars, ret, call, lock, committed, engVars>>

SvcInvoke(t, c) ==
    /\ pc[t] = "idle"
    /\ c \in SvcCallsOf(t)
    /\ loc[t].calls < CallsPerThread
    /\ pc' = [pc EXCEPT ![t] = IF c[1] = "create_library" THEN "lc_check" ELSE "lu_get"]
    /\ loc' = [loc EXCEPT ![t] = [EngLoc EXCEPT !.op = c[1], !.args = c[2],
                                                !.calls = loc[t].calls + 1]]
    /\ UNCHANGED <<catVars, ret, call, lock, committed, engVars>>

\* create_library: the name checks and the scan of get_all_libraries()
SvcCreateCheck(t) ==
    /\ pc[t] = "lc_check"
    /\ IF ~NameAccepted(loc[t].args[2])
          \/ NameTaken(get_all_libraries(Cat).val, loc[t].args[2], None)
       THEN SvcStep(t, "exit", RetError)
       ELSE SvcStep(t, "lc_create", loc[t].result)

\* "return self._repository.create_library(library_data)"
SvcCreateStore(t) ==
    /\ pc[t] = "lc_create"
    /\ LET r == create_library(Cat, loc[t].args[1], loc[t].args[2], <<>>, Now)
       IN /\ SetCat(r.s)
          /\ loc' = [loc EXCEPT ![t].result = r.ret]
    /\ pc' = [pc EXCEPT ![t] = "exit"]
    /\ UNCHANGED <<ret, call, lock, committed, engVars>>

\* update_library: "existing_library = self._repository.get_library(id)" and
\* the name checks that need no stored state
SvcUpdateGet(t) ==
    /\ pc[t] = "lu_get"
    /\ IF get_library(Cat, loc[t].args[1]) = RetNone THEN SvcStep(t, "exit", RetNone)
       ELSE IF ~NameAccepted(loc[t].args[2]) THEN SvcStep(t, "exit", RetError)
       ELSE SvcStep(t, "lu_check", loc[t].result)

\* update_library: the scan of get_all_libraries(), the library itself left out
SvcUpdateCheck(t) ==
    /\ pc[t] = "lu_check"
    /\ IF NameTaken(get_all_libraries(Cat).val, loc[t].args[2], loc[t].args[1])
       THEN SvcStep(t, "exit", RetError)
       ELSE SvcStep(t, "lu_update", loc[t].result)

\* "return self._repository.update_library(library_id, **data)"
SvcUpdateStore(t) ==
    /\ pc[t] = "lu_update"
    /\ LET r == update_library(Cat, loc[t].args[1], [name |-> loc[t].args[2]])
       IN /\ SetCat(r.s)
          /\ loc' = [loc EXCEPT ![t].result = r.ret]
    /\ pc' = [pc EXCEPT ![t] = "exit"]
    /\ UNCHANGED <<ret, call, lock, committed, engVars>>

NextSvc ==
    \E t \in Threads :
        \/ \E c \in SvcCallsOf(t) : SvcInvoke(t, c)
        \/ SvcCreateCheck(t) \/ SvcCreateStore(t)
        \/ SvcUpdateGet(t) \/ SvcUpdateCheck(t) \/ SvcUpdateStore(t)
        \/ EngExit(t)

SpecSvc == InitEngConc /\ [][NextSvc]_vars

\* C30: in every reachable state, also with create_library and
\* update_library of the service running in several threads, no two stored
\* libraries have names that are equal when case is ignored.
C30_NamesUniqueIgnoringCase ==
    \A l, m \in DOMAIN libraries :
        l # m => Lower(libraries[l].name) # Lower(libraries[m].name)

----------------------------------------------------------------------------
(* One KD-tree index called from several threads (app/indexes/kdtree.py).   *)
(* Every method body is a "with self._lock:" block over the index's own     *)
(* RLock (lock); inside it each assignment to a field is a step.  The       *)
(* object is indexes["l1"].idx; committed is the object as it was when the  *)
(* lock was last free.                                                      *)

\* the locals of a thread: cs is the argument of the running index() call,
\* nested tells that add_chunk or remove_chunk made that call, seen is the
\* object a search or lookup read
KdLoc ==
    [op |-> None, args |-> <<>>, cs |-> <<>>, nested |-> FALSE, seen |-> None,
     result |-> RetNone, calls |-> 0]

KdA == IdxChunk(1, <<1, 0>>)
KdB == IdxChunk(2, <<0, 1>>)
KdD == IdxChunk(2, <<1>>)

\* the calls each thread issues
KdCallsOf(t) ==
    IF t = "w" THEN {<<"index", <<cs>>>> : cs \in {<<>>, <<KdA>>, <<KdA, KdB>>, <<KdA, KdD>>}}
    ELSE IF t = "k" THEN {<<"add_chunk", <<KdB>>>>, <<"add_chunk", <<KdD>>>>,
                          <<"remove_chunk", <<"c1">>>>}
    ELSE {<<"search", <<(<<1, 0>>), MaxK, "cosine">>>>, <<"get_chunk_by_id", <<"c2">>>>}

\* a step of thread t inside the lock: the object becomes obj
KdStep(t, label, obj, newloc) ==
    /\ pc' = [pc EXCEPT ![t] = label]
    /\ loc' = [loc EXCEPT ![t] = newloc]
    /\ indexes' = [indexes EXCEPT !["l1"].idx = obj]
    /\ UNCHANGED <<catVars, ret, call, lock, committed>>

\* the thread calls a method and reaches its "with self._lock:"
KdInvoke(t, c) ==
    /\ pc[t] = "idle"
    /\ c \in KdCallsOf(t)
    /\ loc[t].calls < CallsPerThread
    /\ KdStep(t, "enter", TheIndex,
              [KdLoc EXCEPT !.op = c[1], !.args = c[2], !.calls = loc[t].calls + 1,
                            !.cs = IF c[1] = "index" THEN c[2][1] ELSE <<>>])

\* variant: search and get_chunk_by_id run without taking the lock
KdEnter_readers_unlocked(t) ==
    /\ pc[t] = "enter"
    /\ loc[t].op \in {"search", "get_chunk_by_id"} \/ LockAvailable(t)
    /\ IF loc[t].op \in {"search", "get_chunk_by_id"} THEN UNCHANGED lock ELSE Acquire(t)
    /\ pc' = [pc EXCEPT ![t] =
                 IF loc[t].op = "index" THEN "ix_start"
                 ELSE IF loc[t].op = "add_chunk" THEN "ad_check"
                 ELSE IF loc[t].op = "remove_chunk" THEN "rm_filter"
                 ELSE "read"]
    /\ UNCHANGED <<catVars, ret, call, loc, committed, engVars>>

\* "with self._lock:" of every method
KdEnter(t) ==
    /\ pc[t] = "enter"
    /\ LockAvailable(t)
    /\ Acquire(t)
    /\ pc' = [pc EXCEPT ![t] =
                 IF loc[t].op = "index" THEN "ix_start"
                 ELSE IF loc[t].op = "add_chunk" THEN "ad_check"
                 ELSE IF loc[t].op = "remove_chunk" THEN "rm_filter"
                 ELSE "read"]
    /\ UNCHANGED <<catVars, ret, call, loc, committed, engVars>>

\* KDTreeIndex.index, statement by statement; the index() that add_chunk or
\* remove_chunk calls takes the lock once more
KdIndexSteps(t) ==
    LET cs == loc[t].cs
        d == Len(cs[1].embedding)
    IN \/ /\ pc[t] = "ix_call"
          /\ Acquire(t)
          /\ pc' = [pc EXCEPT ![t] = "ix_start"]
          /\ UNCHANGED <<catVars, ret, call, loc, committed, engVars>>
       \/ /\ pc[t] = "ix_start"
          /\ KdStep(t, IF cs = <<>> THEN "ix_e_root" ELSE "ix_dim", TheIndex, loc[t])
       \/ /\ pc[t] = "ix_e_root"
          /\ KdStep(t, "ix_e_list", [TheIndex EXCEPT !.root = NoNode], loc[t])
       \/ /\ pc[t] = "ix_e_list"
          /\ KdStep(t, "ix_built", [TheIndex EXCEPT !.indexed_chunks = <<>>], loc[t])
       \/ /\ pc[t] = "ix_dim"
          /\ KdStep(t, "ix_validate", [TheIndex EXCEPT !.dimensions = d], loc[t])
       \/ /\ pc[t] = "ix_validate"
          /\ IF \E i \in 1..Len(cs) : Len(cs[i].embedding) # TheIndex.dimensions
             THEN KdStep(t, "ix_exit", TheIndex, [loc[t] EXCEPT !.result = RetError])
             ELSE KdStep(t, "ix_list", TheIndex, loc[t])
       \/ /\ pc[t] = "ix_list"
          /\ KdStep(t, "ix_root", [TheIndex EXCEPT !.indexed_chunks = cs], loc[t])
       \/ /\ pc[t] = "ix_root"
          /\ IF TheIndex.dimensions = 0
             THEN KdStep(t, "ix_exit", TheIndex,
                         [loc[t] EXCEPT !.result =
                             Ret("error", "ZeroDivisionError", FALSE, None)])
             ELSE KdStep(t, "ix_built",
                         [TheIndex EXCEPT !.root = build_tree(cs, 0, TheIndex.dimensions)],
                         loc[t])
       \/ /\ pc[t] = "ix_built"
          /\ KdStep(t, "ix_exit", [TheIndex EXCEPT !.is_built = TRUE], loc[t])
       \/ /\ pc[t] = "ix_exit"
          /\ loc[t].nested
          /\ Release(t)
          /\ pc' = [pc EXCEPT ![t] = "exit"]
          /\ UNCHANGED <<catVars, ret, call, loc, committed, engVars>>
       \/ /\ pc[t] = "ix_exit"
          /\ ~loc[t].nested
          /\ pc' = [pc EXCEPT ![t] = "exit"]
          /\ UNCHANGED <<catVars, ret, call, lock, loc, committed, engVars>>

\* KDTreeIndex.add_chunk up to its call of index()
KdAddSteps(t) ==
    \/ /\ pc[t] = "ad_check"
       /\ KdStep(t, IF \E i \in 1..Len(TheIndex.indexed_chunks) :
                          TheIndex.indexed_chunks[i] = loc[t].args[1]
                    THEN "exit" ELSE "ad_append",
                 TheIndex, loc[t])
    \/ /\ pc[t] = "ad_append"
       /\ LET list == Append(TheIndex.indexed_chunks, loc[t].args[1])
          IN KdStep(t, "ix_call", [TheIndex EXCEPT !.indexed_chunks = list],
                    [loc[t] EXCEPT !.cs = list, !.nested = TRUE])

\* KDTreeIndex.remove_chunk up to its call of index()
KdRemoveSteps(t) ==
    /\ pc[t] = "rm_filter"
    /\ LET Other(c) == c.id # loc[t].args[1]
           list == SelectSeq(TheIndex.indexed_chunks, Other)
       IN KdStep(t, "ix_call", [TheIndex EXCEPT !.indexed_chunks = list],
                 [loc[t] EXCEPT !.cs = list, !.nested = TRUE])

\* the body of KDTreeIndex.search and of get_chunk_by_id: one read of the
\* object
KdReadSteps(t) ==
    /\ pc[t] = "read"
    /\ LET a == loc[t].args
           Has(c) == c.id = a[1]
           found == SelectSeq(TheIndex.indexed_chunks, Has)
           r == IF loc[t].op = "search" THEN KDTreeIndex_search(TheIndex, a[1], a[2], a[3])
                ELSE IF found = <<>> THEN RetNone
                ELSE Ret("chunk", Head(found), FALSE, a[1])
       IN KdStep(t, "exit", TheIndex, [loc[t] EXCEPT !.result = r, !.seen = TheIndex])

\* the with-block is left, also by an exception: the lock is released and
\* the call returns or raises
KdExit(t) ==
    /\ pc[t] = "exit"
    /\ Release(t)
    /\ committed' = IF lock.owner = t /\ lock'.owner = None THEN TheIndex ELSE committed
    /\ ret' = loc[t].result
    /\ call' = Call(loc[t].op, loc[t].args)
    /\ pc' = [pc EXCEPT ![t] = "idle"]
    /\ UNCHANGED <<catVars, loc, engVars>>

InitKd ==
    /\ Init!1 /\ Init!2 /\ Init!3 /\ Init!4 /\ Init!5 /\ Init!6 /\ Init!7
    /\ Init!8 /\ Init!9 /\ Init!10 /\ Init!11
    /\ loc = [t \in Threads |-> KdLoc]
    /\ indexes = ("l1" :> [index_type |-> "kdtree", idx |-> Index("kdtree")])
    /\ committed = Index("kdtree")

NextKd ==
    \E t \in Threads :
        \/ \E c \in KdCallsOf(t) : KdInvoke(t, c)
        \/ KdEnter(t)
        \/ KdIndexSteps(t) \/ KdAddSteps(t) \/ KdRemoveSteps(t) \/ KdReadSteps(t)
        \/ KdExit(t)

SpecKd == InitKd /\ [][NextKd]_vars

\* C31: a search or lookup running while another thread builds, adds or
\* removes reads the index as some call left it, never as it is between two
\* assignments of a running index(), add_chunk or remove_chunk.
C31_ReadersSeeWholeMutations ==
    [][\A t \in Threads :
          (pc[t] = "read" /\ pc'[t] = "exit") => loc'[t].seen = committed]_vars

\* a search read the index while a thread that had called index() was
\* waiting for the lock, and another call had changed the index before
C31_Witness ==
    /\ \E t \in Threads : /\ loc[t].op = "search"
                          /\ pc[t] = "exit"
                          /\ loc[t].seen # Index("kdtree")
    /\ \E u \in Threads : loc[u].op = "index" /\ pc[u] = "enter"


(***************************************************************************)
(* MetadataFilter applied to one chunk's metadata: SpecFilter.             *)
(***************************************************************************)

PyStr == Str(<<"p", "y">>)
MlStr == Str(<<"m", "l">>)
AiStr == Str(<<"A", "i">>)
JavaStr == Str(<<"j", "a">>)
RubyStr == Str(<<"r", "b">>)
Day(y) == Str(<<"2", "0", "2", y, "-", "0", "1", "-", "0", "2">>)

\* the metadata of three chunks: one with a number, a list of tags, a nested
\* dict and a date; one with the number only; one with none of the fields
FilterMetadata ==
    <<[cat |-> Num(1), tags |-> List(<<PyStr, MlStr, AiStr>>),
       author |-> Dict([name |-> AiStr]), when |-> Day("4")],
      [cat |-> Num(2)],
      [other |-> Num(0)]>>

FilterKeys == {"cat", "tags", "author.name", "when", "gone"}

Op(op, expected) == [bare |-> FALSE, ops |-> <<(<<op, expected>>)>>]

\* the conditions given for a key
FilterConds ==
    <<[bare |-> TRUE, value |-> Num(1)], [bare |-> TRUE, value |-> AiStr],
      Op("$eq", Num(1)), Op("$ne", Num(1)), Op("$ne", PyNone),
      Op("$gt", Num(0)), Op("$gte", Num(2)), Op("$lt", Num(2)), Op("$lte", Num(1)),
      Op("$in", <<Num(1), Num(3)>>), Op("$in", <<PyStr, JavaStr>>),
      Op("$in", <<JavaStr, RubyStr>>), Op("$nin", <<Num(1)>>),
      Op("$nin", <<JavaStr, RubyStr>>),
      Op("$contains", Str(<<"a">>)), Op("$regex", Str(<<"I">>)),
      Op("$exists", TRUE), Op("$exists", FALSE),
      Op("$date_after", Day("3")), Op("$date_before", Day("3")),
      Op("$date_range", [start |-> Day("3"), end |-> Day("5")]),
      Op("$near", Num(1)),
      [bare |-> FALSE, ops |-> <<(<<"$gte", Num(1)>>), (<<"$lte", Num(1)>>)>>]>>

OrderOps == {"$gt", "$gte", "$lt", "$lte"}

\* "value > expected" and its like are given a number or None on the left:
\* between a string or a list and a number Python raises TypeError
Comparable(metadata, key, condition) ==
    IF condition.bare THEN TRUE
    ELSE IF \A i \in 1..Len(condition.ops) : condition.ops[i][1] \notin OrderOps THEN TRUE
    ELSE get_nested_value(metadata, key).kind \in {"num", "none"}

\* MetadataFilter.apply_filter(metadata, {key: condition})
ApplyFilter(metadata, key, condition) ==
    /\ Comparable(metadata, key, condition)
    /\ ret' = RetBool(apply_filter(metadata, key :> condition))
    /\ call' = Call("apply_filter", <<metadata, key, condition>>)
    /\ UNCHANGED <<catVars, lock, pc, loc, committed, indexes>>

NextFilter ==
    \E i \in DOMAIN FilterMetadata, key \in FilterKeys, j \in DOMAIN FilterConds :
        ApplyFilter(FilterMetadata[i], key, FilterConds[j])

SpecFilter == Init /\ [][NextFilter]_vars

Filtered == call.op = "apply_filter"

\* the conditions that hold on an absent field according to C32
HoldsWhenAbsent(condition) ==
    /\ ~condition.bare
    /\ \A i \in 1..Len(condition.ops) :
          LET op == condition.ops[i][1]
              expected == condition.ops[i][2]
          IN \/ op = "$exists" /\ expected = FALSE
             \/ op = "$ne" /\ expected.kind # "none"

\* C32: for a key that does not resolve in the metadata, a condition holds
\* exactly when it is {$exists: false} or {$ne: x} with x not None; every
\* other condition ($gt, $gte, $lt, $lte, $in, $nin, $contains, $regex, $eq,
\* a bare value, the $date_* operators) is false.
C32_AbsentFieldFails ==
    (Filtered /\ ~has_nested_key(call.args[1], call.args[2]))
        => (ret.val <=> HoldsWhenAbsent(call.args[3]))

\* C33: when the value under the key is a list, {$in: expected} holds exactly
\* when some element of the list is a member of expected.
C33_InMatchesAnyElement ==
    LET value == get_nested_value(call.args[1], call.args[2])
        condition == call.args[3]
    IN (/\ Filtered /\ ~condition.bare /\ Len(condition.ops) = 1
        /\ condition.ops[1][1] = "$in" /\ value.kind = "list")
           => (ret.val <=> \E i \in 1..Len(value.val) : PyIn(value.val[i], condition.ops[1][2]))


(***************************************************************************)
(* The HTTP routes over the catalog and the query engine: SpecRoute.       *)
(* The handlers are coroutines of one event loop: a handler runs without   *)
(* interruption up to an "await" of the embedding service.  One chunk-     *)
(* create request at a time is suspended there (pc["w"] = "embedding").    *)
(***************************************************************************)

MaxRouteChunks == 2

\* an HTTP answer: the status code, the form of the body ("none", "null",
\* "chunk", "count" or "hits") and the body
Http(status, form, body) ==
    [kind |-> "http", val |-> status, alias |-> FALSE, key |-> form, body |-> body]

NoBody(status) == Http(status, "none", None)

\* the id uuid4() gives the next Chunk: one that no stored object refers to
FreshChunkIds ==
    LET used == DOMAIN chunks \cup
                UNION {{indexes[l].idx.indexed_chunks[i].id :
                          i \in 1..Len(indexes[l].idx.indexed_chunks)} : l \in DOMAIN indexes}
        free == {i \in 1..MaxRouteChunks : AllChunkIds[i] \notin used}
    IN {AllChunkIds[i] : i \in {j \in free : \A m \in free : j <= m}}

RECURSIVE Orders(_)
\* the orders in which a Python set can be iterated
Orders(S) ==
    IF S = {} THEN {<<>>}
    ELSE UNION {{<<x>> \o rest : rest \in Orders(S \ {x})} : x \in S}

RouteStep(op, args, answer) ==
    /\ ret' = answer
    /\ call' = Call(op, args)
    /\ UNCHANGED <<lock, committed>>

\* chunks.py create_chunk with an embedding given (auto_embed false)
RouteCreateChunk(document_id, embedding) ==
    /\ pc["w"] = "idle"
    /\ UNCHANGED <<pc, loc, engVars>>
    /\ IF get_document(Cat, document_id) = RetNone
       THEN /\ RouteStep("create_chunk", <<document_id, embedding>>, NoBody(404))
            /\ UNCHANGED catVars
       ELSE IF embedding = <<>>
       THEN /\ RouteStep("create_chunk", <<document_id, embedding>>, NoBody(400))
            /\ UNCHANGED catVars
       ELSE \E id \in FreshChunkIds :
              LET chunk == Chunk(id, document_id, "v0", embedding, "v0", Now)
                  r == create_chunk(Cat, chunk, document_id)
              IN /\ SetCat(r.s)
                 /\ RouteStep("create_chunk", <<document_id, embedding>>, Http(201, "chunk", r.ret.val))

\* chunks.py create_chunk with auto_embed, up to
\* "await embedding_service.generate_embedding(chunk_data.text)"
RouteCreateChunkAuto(document_id) ==
    /\ pc["w"] = "idle"
    /\ UNCHANGED <<catVars, engVars>>
    /\ IF get_document(Cat, document_id) = RetNone
       THEN /\ RouteStep("create_chunk", <<document_id, "auto">>, NoBody(404))
            /\ UNCHANGED <<pc, loc>>
       ELSE /\ pc' = [pc EXCEPT !["w"] = "embedding"]
            /\ loc' = [loc EXCEPT !["w"].op = "create_chunk", !["w"].args = <<document_id, "auto">>]
            /\ UNCHANGED <<ret, call, lock, committed>>

\* the embedding service fails: "Failed to generate embedding"
RouteEmbeddingFails ==
    /\ pc["w"] = "embedding"
    /\ pc' = [pc EXCEPT !["w"] = "idle"]
    /\ loc' = [loc EXCEPT !["w"] = IdleLoc]
    /\ RouteStep("create_chunk", <<loc["w"].args[1], "auto, no embedding">>, NoBody(500))
    /\ UNCHANGED <<catVars, engVars>>

\* the embedding arrives: "chunk = Chunk(...); result =
\* repo.create_chunk(chunk, document_id); return result".  A None result is
\* not a Chunk: depending on the framework's version the response
\* validation fails (500) or the answer is 201 with a null body.
RouteCreateChunkResume(embedding) ==
    /\ pc["w"] = "embedding"
    /\ pc' = [pc EXCEPT !["w"] = "idle"]
    /\ loc' = [loc EXCEPT !["w"] = IdleLoc]
    /\ UNCHANGED engVars
    /\ \E id \in FreshChunkIds :
         LET document_id == loc["w"].args[1]
             chunk == Chunk(id, document_id, "v0", embedding, "v0", Now)
             r == create_chunk(Cat, chunk, document_id)
         IN /\ SetCat(r.s)
            /\ IF r.ret = RetNone
               THEN \/ RouteStep("create_chunk", loc["w"].args, NoBody(500))
                    \/ RouteStep("create_chunk", loc["w"].args, Http(201, "null", None))
               ELSE RouteStep("create_chunk", loc["w"].args, Http(201, "chunk", r.ret.val))

\* chunks.py delete_chunk
RouteDeleteChunk(chunk_id) ==
    /\ UNCHANGED <<pc, loc, engVars>>
    /\ IF get_chunk(Cat, chunk_id) = RetNone
       THEN /\ RouteStep("delete_chunk", <<chunk_id>>, NoBody(404))
            /\ UNCHANGED catVars
       ELSE /\ SetCat(delete_chunk(Cat, chunk_id).s)
            /\ RouteStep("delete_chunk", <<chunk_id>>, NoBody(204))

\* documents.py delete_document over DocumentService.delete_document
RouteDeleteDocument(document_id) ==
    /\ UNCHANGED <<pc, loc, engVars>>
    /\ IF get_document(Cat, document_id) = RetNone
       THEN /\ RouteStep("delete_document", <<document_id>>, NoBody(404))
            /\ UNCHANGED catVars
       ELSE LET r == delete_document(Cat, document_id)
            IN /\ SetCat(r.s)
               /\ RouteStep("delete_document", <<document_id>>,
                            NoBody(IF r.ret.val THEN 204 ELSE 404))

\* libraries.py delete_library over LibraryService.delete_library
RouteDeleteLibrary(library_id) ==
    /\ UNCHANGED <<pc, loc, engVars>>
    /\ IF get_library(Cat, library_id) = RetNone
       THEN /\ RouteStep("delete_library", <<library_id>>, NoBody(404))
            /\ UNCHANGED catVars
       ELSE LET r == delete_library(Cat, library_id)
            IN /\ SetCat(r.s)
               /\ RouteStep("delete_library", <<library_id>>,
                            NoBody(IF r.ret.val THEN 204 ELSE 404))

\* search.py build_index: every exception raised inside the "try", the
\* handler's own HTTPException(400) included, reaches "except Exception"
RouteBuildIndex(library_id, index_type) ==
    /\ UNCHANGED <<catVars, pc, loc>>
    /\ IF get_library(Cat, library_id) = RetNone
       THEN /\ RouteStep("build_index", <<library_id, index_type>>, NoBody(404))
            /\ UNCHANGED engVars
       ELSE IF index_type \notin {"brute_force", "kdtree"}
       THEN /\ RouteStep("build_index", <<library_id, index_type>>, NoBody(400))
            /\ UNCHANGED engVars
       ELSE \E cs \in Orders(get_library_chunks(Cat, library_id).val) :
              LET HasEmbedding(c) == c.embedding # <<>>
                  chunks_with_embeddings == SelectSeq(cs, HasEmbedding)
                  r == index_library(indexes, library_id, chunks_with_embeddings, index_type)
              IN IF chunks_with_embeddings = <<>>
                 THEN /\ RouteStep("build_index", <<library_id, index_type>>, NoBody(500))
                      /\ UNCHANGED engVars
                 ELSE /\ indexes' = r.s
                      /\ RouteStep("build_index", <<library_id, index_type>>,
                                   IF r.ret.kind = "error" THEN NoBody(500)
                                   ELSE Http(200, "count", Len(chunks_with_embeddings)))

\* search.py search_similar_chunks with a query_embedding and no query_text
RouteSearch(library_id, query_embedding, k, similarity_metric) ==
    /\ UNCHANGED <<catVars, pc, loc, engVars>>
    /\ LET found == search_similar_chunks(indexes, library_id, query_embedding, k,
                                          similarity_metric, NoFilter)
           args == <<library_id, query_embedding, k, similarity_metric>>
       IN IF get_library(Cat, library_id) = RetNone
          THEN RouteStep("search", args, NoBody(404))
          ELSE IF query_embedding = <<>>
          THEN RouteStep("search", args, NoBody(400))
          ELSE IF found.kind = "error"
          THEN RouteStep("search", args, NoBody(500))
          ELSE RouteStep("search", args, Http(200, "hits", found.val))

\* one library with one document
RoutePopulated ==
    LET s1 == create_library(EmptyCat, "l1", "v0", "v0", Now).s
    IN create_document(s1, "d1", "v0", "v0", "l1", Now).s

InitRoute ==
    /\ libraries = RoutePopulated.libraries
    /\ documents = RoutePopulated.documents
    /\ chunks = RoutePopulated.chunks
    /\ library_documents = RoutePopulated.library_documents
    /\ document_chunks = RoutePopulated.document_chunks
    /\ chunk_document = RoutePopulated.chunk_document
    /\ document_library = RoutePopulated.document_library
    /\ Init!8 /\ Init!9 /\ Init!10 /\ Init!11 /\ Init!12 /\ Init!13 /\ Init!14

RouteEmbeddings == {<<1, 0>>, <<1>>, <<>>}

\* the searches asked for: a good one, a query of another dimension, an
\* empty query, an unknown metric
RouteSearches ==
    {<<(<<1, 0>>), "cosine">>, <<(<<1>>), "cosine">>, <<(<<>>), "cosine">>,
     <<(<<1, 0>>), "hamming">>}

NextRoute ==
    \/ \E d \in DocIds, e \in RouteEmbeddings : RouteCreateChunk(d, e)
    \/ \E d \in DocIds : RouteCreateChunkAuto(d)
    \/ RouteEmbeddingFails
    \/ RouteCreateChunkResume(<<1, 0>>)
    \/ \E c \in {AllChunkIds[i] : i \in 1..MaxRouteChunks} : RouteDeleteChunk(c)
    \/ \E d \in DocIds : RouteDeleteDocument(d)
    \/ RouteDeleteLibrary("l1")
    \/ \E l \in LibIds, t \in IndexTypes \cup {"hnsw"} : RouteBuildIndex(l, t)
    \/ \E q \in RouteSearches : RouteSearch("l1", q[1], MaxK, q[2])

SpecRoute == InitRoute /\ [][NextRoute]_vars

\* C34: the index route and the search route never answer 500 here, where
\* every failure is caused by the request (no chunks with embeddings, mixed
\* dimensions, a query of another dimension, an empty query, an unknown
\* metric): such failures are answered with 400.
C34_ClientErrorsAnswered400 ==
    call.op \in {"build_index", "search"} => ret.val # 500

\* C35: a chunk-create request whose document is gone when the catalog's
\* create_chunk runs is answered with 404: not with a success that stored
\* nothing and not with 500 (the embedding service itself does not fail in
\* the case meant).
C35_CreateAfterParentDeleted ==
    [][(/\ pc["w"] = "embedding" /\ pc'["w"] = "idle"
        /\ loc["w"].args[1] \notin DOMAIN documents
        /\ call'.args = loc["w"].args)
          => ret'.val = 404]_vars

\* C38: every hit of a search of library L is a chunk stored in the catalog
\* under L at that time.
C38_HitsAreStored ==
    (call.op = "search" /\ ret.val = 200) =>
        \A i \in 1..Len(ret.body) :
            ret.body[i].chunk.id \in
                {c.id : c \in get_library_chunks(Cat, call.args[1]).val}


(***************************************************************************)
(* The KD-tree index object after calls that fail (under SpecIndex).       *)
(***************************************************************************)

RECURSIVE TreeIds(_)
\* the ids of the chunks reachable from a tree node
TreeIds(node) ==
    IF node.empty THEN {}
    ELSE {node.chunk.id} \cup TreeIds(node.left) \cup TreeIds(node.right)

\* C37: after every index, add_chunk and remove_chunk call on a KD-tree
\* index, failed calls included, the chunks reachable in the tree are the
\* chunks of the chunk list, the recorded dimension is the embedding length
\* of every indexed chunk, and a call that failed has changed nothing.
C37_KdTreeStaysConsistent ==
    [][(TheIndex.kind = "kdtree" /\ call'.op \in {"index", "add_chunk", "remove_chunk"})
          => LET idx == indexes'["l1"].idx
                 n == Len(idx.indexed_chunks)
             IN /\ TreeIds(idx.root) = {idx.indexed_chunks[i].id : i \in 1..n}
                /\ \A i \in 1..n : Len(idx.indexed_chunks[i].embedding) = idx.dimensions
                /\ ret'.kind = "error" => indexes' = indexes]_vars


(***************************************************************************)
(* index_library with builds that fail: SpecInstall.                       *)
(***************************************************************************)

\* chunk lists given to index_library: uniform ones and two of mixed
\* dimensions
InstallLists ==
    {<<KdA>>, <<KdB>>, <<KdA, KdB>>, <<KdA, KdD>>, <<KdD, KdA>>}

NextInstall ==
    \/ \E cs \in InstallLists, t \in IndexTypes \cup {"hnsw", None} :
          IndexLibrary("l1", cs, t)
    \/ \E q \in {<<1, 0>>, <<0, 1>>}, k \in 1..MaxK :
          SearchSimilarChunks("l1", q, k, "cosine", NoFilter)

SpecInstall == Init /\ [][NextInstall]_vars

\* C39: an index_library call that fails (unknown variant, or the build
\* raises) leaves the engine's indexes, and with them the active index, its
\* variant and the answers of later searches, as they were; an index that is
\* installed has been built.
C39_FailedBuildKeepsIndex ==
    [][call'.op = "index_library"
          => IF ret'.kind = "error" THEN indexes' = indexes
             ELSE indexes'[call'.args[1]].idx.is_built]_vars

\* a build rejected for mixed dimensions while an index holding chunks is
\* installed
C39_Witness ==
    /\ call.op = "index_library" /\ ~Uniform(call.args[2]) /\ call.args[3] = "kdtree"
    /\ ret.kind = "error"
    /\ "l1" \in DOMAIN indexes
    /\ indexes["l1"].idx.indexed_chunks # <<>>


(***************************************************************************)
(* Updates given as update objects: SpecObj.  An update object (UpdateX,   *)
(* DocumentUpdate) is modelled by the record of the fields that were set;  *)
(* a field that was not set reads as None.  Names, titles and texts are    *)
(* sequences of characters.                                                *)
(***************************************************************************)

PyTypeError == Ret("error", "TypeError", FALSE, None)

\* "def update_x(self, x_id, **updates)": the method binds one positional
\* argument after self; a call with more raises TypeError before the body
\* (and its "with self._lock") runs
BindsUpdate(positional) == Len(positional) = 1

\* repo.update_library / update_document / update_chunk as called
repo_update(s, entity, positional, updates) ==
    IF ~BindsUpdate(positional) THEN Result(s, PyTypeError)
    ELSE IF entity = "library" THEN update_library(s, positional[1], updates)
    ELSE IF entity = "document" THEN update_document(s, positional[1], updates)
    ELSE update_chunk(s, positional[1], updates)

\* "data.f and ..." : the field is set and not empty
Truthy(data, f) == f \in DOMAIN data /\ data[f] # <<>>

\* DocumentService.update_document
DocumentService_update_document(s, document_id, document_data) ==
    LET existing_document == get_document(s, document_id)
        title == document_data.title
        existing_docs == get_library_documents(s, existing_document.val.library_id).val
    IN IF existing_document = RetNone THEN Result(s, RetNone)
       ELSE IF Truthy(document_data, "title") /\ Len(Strip(title)) < 1
       THEN Result(s, RetError)
       ELSE IF Truthy(document_data, "title") /\ Strip(title) # title
       THEN Result(s, RetError)
       ELSE IF /\ Truthy(document_data, "title")
               /\ \E doc \in existing_docs :
                     doc.id # document_id /\ Lower(doc.title) = Lower(title)
       THEN Result(s, RetError)
       ELSE repo_update(s, "document", <<document_id, document_data>>, <<>>)

\* ChunkService.update_chunk
ChunkService_update_chunk(s, chunk_id, chunk_data) ==
    IF get_chunk(s, chunk_id) = RetNone THEN Result(s, RetNone)
    ELSE IF Truthy(chunk_data, "text") /\ Len(Strip(chunk_data.text)) < 1
    THEN Result(s, RetError)
    ELSE IF "embedding" \in DOMAIN chunk_data /\ Len(chunk_data.embedding) = 0
    THEN Result(s, RetError)
    ELSE repo_update(s, "chunk", <<chunk_id, chunk_data>>, <<>>)

\* LibraryService.update_library: "**library_data.dict(exclude_unset=True)"
LibraryService_update_library(s, library_id, library_data) ==
    IF get_library(s, library_id) = RetNone THEN Result(s, RetNone)
    ELSE IF Truthy(library_data, "name") /\ Len(Strip(library_data.name)) < 3
    THEN Result(s, RetError)
    ELSE IF Truthy(library_data, "name") /\ Strip(library_data.name) # library_data.name
    THEN Result(s, RetError)
    ELSE IF /\ Truthy(library_data, "name")
            /\ NameTaken(get_all_libraries(s).val, library_data.name, library_id)
    THEN Result(s, RetError)
    ELSE repo_update(s, "library", <<library_id>>, library_data)

\* a call with an update object; shape names the fields that are set
ObjCall(op, id, shape, data, r) ==
    /\ SetCat(r.s)
    /\ ret' = r.ret
    /\ call' = Call(op, <<id, shape, data>>)
    /\ UNCHANGED <<thrVars, engVars>>

ObjUpdateDocument(id, shape, data) ==
    ObjCall("DocumentService.update_document", id, shape, data,
            DocumentService_update_document(Cat, id, data))

ObjUpdateChunk(id, shape, data) ==
    ObjCall("ChunkService.update_chunk", id, shape, data,
            ChunkService_update_chunk(Cat, id, data))

ObjUpdateLibrary(id, shape, data) ==
    ObjCall("LibraryService.update_library", id, shape, data,
            LibraryService_update_library(Cat, id, data))

\* test_update_library: repository.update_library(library_id, update_data)
ObjRepoUpdateLibrary(id, shape, data) ==
    ObjCall("update_library", id, shape, data,
            repo_update(Cat, "library", <<id, data>>, <<>>))

\* one library with two documents, the first with a chunk
ObjPopulated ==
    LET s1 == create_library(EmptyCat, "l1", <<"a", "b", "c">>, "v0", Now).s
        s2 == create_document(s1, "d1", <<"x">>, "v0", "l1", Now).s
        s3 == create_document(s2, "d2", <<"y">>, "v0", "l1", Now).s
    IN create_chunk(s3, Chunk("c1", "d1", <<"t">>, <<1, 0>>, "v0", Now), "d1").s

InitObj ==
    /\ libraries = ObjPopulated.libraries
    /\ documents = ObjPopulated.documents
    /\ chunks = ObjPopulated.chunks
    /\ library_documents = ObjPopulated.library_documents
    /\ document_chunks = ObjPopulated.document_chunks
    /\ chunk_document = ObjPopulated.chunk_document
    /\ document_library = ObjPopulated.document_library
    /\ Init!8 /\ Init!9 /\ Init!10 /\ Init!11 /\ Init!12 /\ Init!13 /\ Init!14

\* update objects by shape
ObjTitles == {<<"x">>, <<"Y">>, <<"z">>, <<" ">>, <<"z", " ">>}
ObjNames == {<<"a", "b", "c">>, <<"x", "y", "z">>, <<"a", "b">>}
ObjTexts == {<<"t">>, <<"u">>, <<" ">>}

DocumentUpdates(shape) ==
    IF shape = "title" THEN {[title |-> t] : t \in ObjTitles}
    ELSE IF shape = "metadata" THEN {[metadata |-> "v1"]}
    ELSE {[title |-> t, metadata |-> "v1"] : t \in ObjTitles}

ChunkObjUpdates(shape) ==
    IF shape = "text" THEN {[text |-> t] : t \in ObjTexts}
    ELSE IF shape = "embedding" THEN {[embedding |-> e] : e \in {<<>>, <<0, 1>>}}
    ELSE {[text |-> t, embedding |-> <<0, 1>>] : t \in ObjTexts}

LibraryUpdates(shape) ==
    IF shape = "name" THEN {[name |-> n] : n \in ObjNames}
    ELSE {[metadata |-> "v1"]}

NextObj ==
    \/ \E d \in DocIds \cup {"d3"}, shape \in {"title", "metadata", "title+metadata"} :
          \E data \in DocumentUpdates(shape) : ObjUpdateDocument(d, shape, data)
    \/ \E c \in ChunkIds, shape \in {"text", "embedding", "text+embedding"} :
          \E data \in ChunkObjUpdates(shape) : ObjUpdateChunk(c, shape, data)
    \/ \E l \in LibIds, shape \in {"name", "metadata"} :
          \E data \in LibraryUpdates(shape) : ObjUpdateLibrary(l, shape, data)
    \/ \E l \in LibIds, shape \in {"name", "metadata"} :
          \E data \in LibraryUpdates(shape) : ObjRepoUpdateLibrary(l, shape, data)

SpecObj == InitObj /\ [][NextObj]_vars

\* the update object passes the service's own checks
ObjValid(op, id, data) ==
    IF op = "DocumentService.update_document"
    THEN \/ "title" \notin DOMAIN data
         \/ /\ Strip(data.title) = data.title /\ Len(data.title) >= 1
            /\ \A d \in DOMAIN documents :
                  d # id => Lower(documents[d].title) # Lower(data.title)
    ELSE IF op = "ChunkService.update_chunk"
    THEN /\ "text" \in DOMAIN data => Len(Strip(data.text)) >= 1
         /\ "embedding" \in DOMAIN data => Len(data.embedding) >= 1
    ELSE TRUE

\* C36: DocumentService.update_document, ChunkService.update_chunk and the
\* catalog's update_library, called with an update object for a stored id
\* and with valid, non-conflicting fields, do not fail: they return the
\* stored object with every field of the update object applied.
C36_ObjectUpdatesSucceed ==
    [][(/\ call'.op \in {"DocumentService.update_document",
                         "ChunkService.update_chunk", "update_library"}
        /\ call'.args[1] \in DOMAIN libraries \cup DOMAIN documents \cup DOMAIN chunks
        /\ ObjValid(call'.op, call'.args[1], call'.args[3]))
          => /\ ret'.kind # "error"
             /\ \A f \in DOMAIN call'.args[3] : ret'.val[f] = call'.args[3][f]]_vars


(***************************************************************************)
(* The catalog guard: SpecLock.  Every public method of the repository is  *)
(* a frame that acquires the RLock, runs its body, makes its nested public *)
(* calls (each a frame of its own) and releases the lock when its          *)
(* with-block is left, by return or by exception.  The _internal helpers   *)
(* take no lock and belong to the frame that calls them.                   *)
(***************************************************************************)

LkFrame(fn, args) == [fn |-> fn, args |-> args, todo |-> {}, inner |-> None]

LkLoc == [op |-> None, args |-> <<>>, frames |-> <<>>, result |-> RetNone,
          calls |-> 0, deepest |-> 0]

LkUpdates == [metadata |-> "v1"]

\* the calls each thread issues: w creates and deletes, k updates and
\* creates chunks, r reads
LkCallsOf(t) ==
    IF t = "w" THEN {<<"create_library", <<"l1">>>>, <<"create_library", <<"l2">>>>,
                     <<"delete_library", <<"l1">>>>, <<"delete_document", <<"d1">>>>}
    ELSE IF t = "k" THEN {<<"update_library", <<"l1">>>>, <<"update_chunk", <<"c1">>>>,
                          <<"create_chunk", <<"c1", "d1">>>>}
    ELSE {<<"get_all_libraries", <<>>>>, <<"get_library_documents", <<"l1">>>>,
          <<"get_stats", <<>>>>}

\* the body of a public method up to its nested public calls: the catalog it
\* leaves, what it returns (or raises), and the calls of "inner" it makes
LkRun(s, fn, args) ==
    LET Plain(r) == [s |-> r.s, ret |-> r.ret, todo |-> {}, inner |-> None]
        Nested(r, todo, inner) == [s |-> r.s, ret |-> r.ret, todo |-> todo, inner |-> inner]
        docs == IF args # <<>> /\ args[1] \in DOMAIN s.library_documents
                THEN s.library_documents[args[1]] ELSE {}
    IN IF fn = "create_library" THEN Plain(create_library(s, args[1], "v0", "v0", Now))
       ELSE IF fn = "create_document"
            THEN Plain(create_document(s, args[1], "v0", "v0", "l1", Now))
       ELSE IF fn = "create_chunk"
            THEN Plain(create_chunk(s, Chunk(args[1], args[2], "v0", "v0", "v0", Now), args[2]))
       ELSE IF fn = "delete_library" THEN Plain(delete_library(s, args[1]))
       ELSE IF fn = "delete_document" THEN Plain(delete_document(s, args[1]))
       ELSE IF fn = "delete_chunk" THEN Plain(delete_chunk(s, args[1]))
       ELSE IF fn = "update_library"
            THEN Nested(update_library(s, args[1], LkUpdates),
                        {args[1]} \cap DOMAIN s.libraries, "get_library")
       ELSE IF fn = "update_document"
            THEN Nested(update_document(s, args[1], LkUpdates),
                        {args[1]} \cap DOMAIN s.documents, "get_document")
       ELSE IF fn = "update_chunk"
            THEN Nested(update_chunk(s, args[1], LkUpdates),
                        {args[1]} \cap DOMAIN s.chunks, "get_chunk")
       ELSE IF fn = "get_all_libraries"
            THEN Nested(Result(s, get_all_libraries(s)), DOMAIN s.libraries, "get_library")
       ELSE IF fn = "get_library"
            THEN Nested(Result(s, get_library(s, args[1])),
                        IF args[1] \in DOMAIN s.libraries THEN docs ELSE {}, "get_document")
       ELSE IF fn = "get_library_documents"
            THEN Nested(Result(s, get_library_documents(s, args[1])), docs, "get_document")
       ELSE IF fn = "get_document" THEN Plain(Result(s, get_document(s, args[1])))
       ELSE IF fn = "get_chunk" THEN Plain(Result(s, get_chunk(s, args[1])))
       ELSE Plain(Result(s, get_stats(s)))

LkTop(t) == loc[t].frames[Len(loc[t].frames)]

LkSetTop(t, f) == [loc[t].frames EXCEPT ![Len(loc[t].frames)] = f]

\* the thread calls a catalog operation
LkInvoke(t, c) ==
    /\ pc[t] = "idle"
    /\ c \in LkCallsOf(t)
    /\ loc[t].calls < CallsPerThread
    /\ loc' = [loc EXCEPT ![t] = [LkLoc EXCEPT !.op = c[1], !.args = c[2],
                                               !.frames = <<LkFrame(c[1], c[2])>>,
                                               !.calls = loc[t].calls + 1]]
    /\ Goto(t, "acquire")
    /\ UNCHANGED <<catVars, ret, call, lock, committed, engVars>>

\* "with self._lock:" of the frame on top
LkAcquire(t) ==
    /\ pc[t] = "acquire"
    /\ LockAvailable(t)
    /\ Acquire(t)
    /\ loc' = [loc EXCEPT ![t].deepest = IF lock.depth + 1 > @ THEN lock.depth + 1 ELSE @]
    /\ Goto(t, "body")
    /\ UNCHANGED <<catVars, ret, call, committed, engVars>>

\* the statements of the with-block before the nested calls
LkBody(t) ==
    /\ pc[t] = "body"
    /\ LET f == LkTop(t)
           run == LkRun(Cat, f.fn, f.args)
       IN /\ SetCat(run.s)
          /\ loc' = [loc EXCEPT ![t].frames = LkSetTop(t, [f EXCEPT !.todo = run.todo,
                                                                  !.inner = run.inner]),
                                ![t].result = IF Len(loc[t].frames) = 1 THEN run.ret ELSE @]
          /\ Goto(t, "calls")
    /\ UNCHANGED <<ret, call, lock, committed, engVars>>

\* the next nested public call, or the end of the with-block
LkCalls(t) ==
    /\ pc[t] = "calls"
    /\ LET f == LkTop(t)
       IN IF f.todo = {}
          THEN Goto(t, "release") /\ UNCHANGED loc
          ELSE \E x \in f.todo :
                  /\ loc' = [loc EXCEPT ![t].frames =
                                Append(LkSetTop(t, [f EXCEPT !.todo = @ \ {x}]),
                                       LkFrame(f.inner, <<x>>))]
                  /\ Goto(t, "acquire")
    /\ UNCHANGED <<catVars, ret, call, lock, committed, engVars>>

\* the with-block is left, by return or by exception
LkRelease(t) ==
    /\ pc[t] = "release"
    /\ Release(t)
    /\ loc' = [loc EXCEPT ![t].frames = SubSeq(@, 1, Len(@) - 1)]
    /\ IF Len(loc[t].frames) = 1
       THEN /\ Goto(t, "idle")
            /\ ret' = loc[t].result
            /\ call' = Call(loc[t].op, loc[t].args)
       ELSE /\ Goto(t, "calls")
            /\ UNCHANGED <<ret, call>>
    /\ UNCHANGED <<catVars, committed, engVars>>

LkStep(t) == LkAcquire(t) \/ LkBody(t) \/ LkCalls(t) \/ LkRelease(t)

\* one library holding one document with one chunk
LkStart ==
    LET s1 == create_library(EmptyCat, "l1", "v0", "v0", Now).s
        s2 == create_document(s1, "d1", "v0", "v0", "l1", Now).s
    IN create_chunk(s2, Chunk("c1", "d1", "v0", "v0", "v0", Now), "d1").s

InitLock ==
    /\ libraries = LkStart.libraries
    /\ documents = LkStart.documents
    /\ chunks = LkStart.chunks
    /\ library_documents = LkStart.library_documents
    /\ document_chunks = LkStart.document_chunks
    /\ chunk_document = LkStart.chunk_document
    /\ document_library = LkStart.document_library
    /\ ret = RetNone
    /\ call = Call("init", <<>>)
    /\ lock = [owner |-> None, depth |-> 0]
    /\ pc = [t \in Threads |-> "idle"]
    /\ loc = [t \in Threads |-> LkLoc]
    /\ committed = LkStart
    /\ indexes = <<>>

NextLock ==
    \E t \in Threads :
        \/ \E c \in LkCallsOf(t) : LkInvoke(t, c)
        \/ LkAcquire(t)
        \/ LkBody(t)
        \/ LkCalls(t)
        \/ LkRelease(t)

SpecLock == InitLock /\ [][NextLock]_vars

\* the interpreter keeps running every thread that can run, and a thread
\* blocked in acquire can run once the lock is free
SpecLockFair == SpecLock /\ \A t \in Threads : WF_vars(LkStep(t))

LkIdle == \A t \in Threads : pc[t] = "idle"

\* C40: every catalog operation invoked by concurrent threads eventually
\* returns, also when it raises and when it re-enters the guard, and the
\* guard is free whenever no operation is in progress.
C40_OperationsReturnAndRelease ==
    /\ [](LkIdle => lock = [owner |-> None, depth |-> 0])
    /\ \A t \in Threads : (pc[t] # "idle") ~> (pc[t] = "idle")

\* three operations have returned with the guard free: a create that raised
\* on an id collision, an update that re-entered the guard, and a
\* get_all_libraries that held it three deep
C40_Witness ==
    /\ LkIdle
    /\ lock.owner = None
    /\ loc["w"].op = "create_library" /\ loc["w"].result = RetError
    /\ loc["k"].op = "update_library" /\ loc["k"].deepest = 3
    /\ loc["r"].op = "get_all_libraries" /\ loc["r"].deepest = 3

====
